---- MODULE Spec2Model ----
(***************************************************************************)
(* better-cassandra: the schema-to-DDL compiler (Model.load, UDT.load,     *)
(* the type registry and the model registry of the Client) and the         *)
(* statement builders (Model.select/count/delete/update, the Batch ones).  *)
(*                                                                         *)
(* Strings of the program are TLA+ strings.  A type expression, whose      *)
(* characters the code inspects (indexOf, substring, split), is kept as    *)
(* the sequence of its lexical tokens: the delimiters "<", ">", "," and    *)
(* the maximal runs of other characters between them.  Positions count     *)
(* tokens instead of characters, which keeps the order of positions.       *)
(***************************************************************************)
EXTENDS Integers, Sequences, FiniteSets, TLC

VARIABLES
    schema,      \* Model.schema.definition of each constructed Model: name -> columns
    udtSchema,   \* UDT.schema.definition of each constructed UDT: name -> fields
    client,      \* the Model and UDT objects whose this.client is assigned
    types,       \* Client.types: the registered UDT names
    models,      \* Client.models: the registered model names
    primaryKey,  \* Model.primaryKey of each Model: <<partition columns, clustering columns>>
    stack,       \* per caller: the frames of its pending async call, innermost last
    call,        \* per caller: the call it is in (None when idle)
    loads,       \* per Model: how many times load was called
    ncalls,      \* number of async calls started so far
    log,         \* the statements handed to cassandara.execute, in order
    results,     \* the finished calls, in order
    dbTypes,     \* backend: the types that exist
    dbTables,    \* backend: the tables that exist
    created,     \* backend: per type, how many CREATE TYPE statements created it
    qin,         \* statement builders: the arguments of the call
    qout,        \* statement builders: the statement submitted or returned
    qres,        \* statement builders: how the promise of the call settled
    connect      \* Client.connect: its files and the position it has reached

loadVars == <<schema, udtSchema, client, types, models, primaryKey, stack, call,
              loads, ncalls, log, results, dbTypes, dbTables, created>>
queryVars == <<qin, qout, qres>>
vars == <<schema, udtSchema, client, types, models, primaryKey, stack, call,
          loads, ncalls, log, results, dbTypes, dbTables, created, qin, qout, qres, connect>>

(***************************************************************************)
(* Bounds of the model.                                                    *)
(***************************************************************************)
MaxCols == 2
MaxCalls == 2
MaxConds == 2

\* the depth at which the model stops following a chain of awaited loads
MaxDepth == 4

None == [kind |-> "none"]

(***************************************************************************)
(* JavaScript string and array primitives.                                 *)
(***************************************************************************)
RECURSIVE Join(_, _)
Join(parts, sep) ==
    IF Len(parts) = 0 THEN ""
    ELSE IF Len(parts) = 1 THEN parts[1]
    ELSE parts[1] \o sep \o Join(Tail(parts), sep)

Undefined == "undefined"

Truthy(s) == s # Undefined /\ s # ""

Str(toks) == Join(toks, "")

Min(a, b) == IF a < b THEN a ELSE b

Max(a, b) == IF a > b THEN a ELSE b

\* String.prototype.indexOf: the 0-based position of the first t, or -1
IndexOf(toks, t) ==
    IF \E i \in 1..Len(toks) : toks[i] = t
    THEN (CHOOSE i \in 1..Len(toks) : toks[i] = t /\ \A j \in 1..(i-1) : toks[j] # t) - 1
    ELSE -1

\* String.prototype.substring: arguments clamped to 0..length, swapped when start > end
Substring(toks, start, end) ==
    LET s == Min(Max(start, 0), Len(toks))
        e == Min(Max(end, 0), Len(toks))
    IN  SubSeq(toks, Min(s, e) + 1, Max(s, e))

\* fieldType.split('<')[0]
SplitHead(toks) ==
    IF IndexOf(toks, "<") = -1 THEN toks ELSE SubSeq(toks, 1, IndexOf(toks, "<"))

(***************************************************************************)
(* Schema.ts                                                               *)
(***************************************************************************)
FieldTypeMap ==
    {"ascii", "bigint", "blob", "boolean", "counter", "date", "decimal", "double",
     "duration", "float", "inet", "int", "smallint", "text", "time", "timestamp",
     "timeuuid", "tinyint", "uuid", "varchar", "varint"}

\* a type given as a string
StringType(toks) == [frozen |-> FALSE, toks |-> toks]

\* new FrozenType(udt)
FrozenType(toks) == [frozen |-> TRUE, toks |-> toks]

SchemaOptionsField(name, type, pk, ck) ==
    [name |-> name, type |-> type, partitionKey |-> pk, cluseringKey |-> ck]

Keyspace == "ks"

\* the typeMapping object literal of getColumnDefinition, looked up by a string
typeMapping(toks) ==
    IF Len(toks) = 1 /\ toks[1] \in FieldTypeMap THEN toks[1] ELSE Undefined

\* this.client.types.get(key)
TypesGet(reg, toks) ==
    IF Len(toks) = 1 /\ toks[1] \in reg THEN toks[1] ELSE Undefined

\* the text between the first "<" and the first ">"
Inner(toks) == Substring(toks, IndexOf(toks, "<") + 1, IndexOf(toks, ">"))

\* mutant: the lookup finds every constructed UDT, registered or not
LookupFrozenAny(reg, toks) ==
    IF Truthy(TypesGet(DOMAIN udtSchema, toks)) THEN TypesGet(DOMAIN udtSchema, toks)
    ELSE TypesGet(DOMAIN udtSchema, Inner(toks))

\* types.get(fieldType.udt) || types.get(fieldType.udt.substring(startPos, endPos))
LookupFrozen(reg, toks) ==
    IF Truthy(TypesGet(reg, toks)) THEN TypesGet(reg, toks) ELSE TypesGet(reg, Inner(toks))

(***************************************************************************)
(* Model.ts and UDT.ts: compiling one column.                              *)
(***************************************************************************)
\* mutant: key columns are put in front of the list instead of behind it
ModelColumnDefinitionUnshift(pk, f) ==
    LET fieldType == f.type.toks
        whole == typeMapping(fieldType)
        inner == typeMapping(Inner(fieldType))
    IN  IF Truthy(whole) \/ Truthy(inner)
        THEN [kind |-> "return",
              primaryKey |->
                  IF f.partitionKey THEN <<<<f.name>> \o pk[1], pk[2]>>
                  ELSE IF f.cluseringKey THEN <<pk[1], <<f.name>> \o pk[2]>>
                  ELSE pk,
              text |-> f.name \o " " \o
                  (IF Truthy(whole) THEN whole
                   ELSE Str(SplitHead(fieldType)) \o "<" \o inner \o ">")]
        ELSE [kind |-> "throw",
              msg |-> "Unsupported field type: " \o Str(fieldType)]

\* Model.getColumnDefinition, the branch of a type given as a string
ModelColumnDefinition(pk, f) ==
    LET fieldType == f.type.toks
        whole == typeMapping(fieldType)
        inner == typeMapping(Inner(fieldType))
    IN  IF Truthy(whole) \/ Truthy(inner)
        THEN [kind |-> "return",
              primaryKey |->
                  IF f.partitionKey THEN <<Append(pk[1], f.name), pk[2]>>
                  ELSE IF f.cluseringKey THEN <<pk[1], Append(pk[2], f.name)>>
                  ELSE pk,
              text |-> f.name \o " " \o
                  (IF Truthy(whole) THEN whole
                   ELSE Str(SplitHead(fieldType)) \o "<" \o inner \o ">")]
        ELSE [kind |-> "throw",
              msg |-> "Unsupported field type: " \o Str(fieldType)]

\* UDT.getColumnDefinition, the branches of a type given as a string
UDTColumnDefinition(f) ==
    LET fieldType == f.type.toks
    IN  IF Truthy(typeMapping(fieldType))
        THEN [kind |-> "return", text |-> f.name \o " " \o typeMapping(fieldType)]
        ELSE [kind |-> "throw",
              msg |-> "Unsupported field type: " \o Str(fieldType)]

\* the value returned for a FrozenType column once type.load() has completed
FrozenColumnDefinition(f) == f.name \o " frozen<" \o Str(f.type.toks) \o ">"

ModelMissingType(name, f) ==
    "Model \"" \o name \o "\" requires the \"" \o Str(f.type.toks)
        \o "\" user defined type which was not found!"

UDTMissingType(name, f) ==
    "Type \"" \o name \o "\" requires the \"" \o Str(f.type.toks)
        \o "\" user defined type which was not found!"

\* reading a property of this.client while this.client is undefined
NoClient == "TypeError: Cannot read properties of undefined"

(***************************************************************************)
(* The statements.                                                         *)
(***************************************************************************)
CreateTable(name, columns, pk) ==
    "CREATE TABLE IF NOT EXISTS " \o Keyspace \o "." \o name \o " (\n          "
        \o Join(columns, ",\n") \o ",\n          PRIMARY KEY ((" \o Join(pk[1], ", ") \o ")"
        \o (IF Len(pk[2]) > 0 THEN ", " \o Join(pk[2], ", ") ELSE "")
        \o ")\n        );"

\* mutant: a type that exists already is declared again without its fields
CreateTypeOnce(name, columns) ==
    "CREATE TYPE IF NOT EXISTS " \o Keyspace \o "." \o name
        \o " (" \o (IF name \in dbTypes THEN "" ELSE Join(columns, ", ")) \o ");"

CreateType(name, columns) ==
    "CREATE TYPE IF NOT EXISTS " \o Keyspace \o "." \o name
        \o " (" \o Join(columns, ", ") \o ");"

DropTable(name) == "DROP TABLE IF EXISTS " \o Keyspace \o "." \o name \o ";"

DropType(name) == "DROP TYPE IF EXISTS " \o Keyspace \o "." \o name

(***************************************************************************)
(* Async calls.  A caller runs one call at a time; a call is a stack of    *)
(* frames (load of a model, and the UDT loads it awaits).  An exception    *)
(* unwinds the whole stack: no frame of load catches.                      *)
(***************************************************************************)
Procs == DOMAIN stack

Frame(kind, name) ==
    [kind |-> kind, name |-> name, i |-> 1, columns |-> <<>>, ph |-> "cols", sid |-> 0]

Top(p) == stack[p][Len(stack[p])]

Busy(p) == Len(stack[p]) > 0

Chain(p) == [k \in 1..Len(stack[p]) |-> stack[p][k].name]

Result(p, how, err, reg) ==
    [cid |-> call[p].cid, proc |-> p, op |-> call[p].op, target |-> call[p].target,
     loadNo |-> call[p].loadNo, result |-> how, err |-> err, chain |-> Chain(p),
     wasRegistered |-> call[p].wasRegistered, registered |-> call[p].target \in reg]

\* the call of p ends: it resolves, or rejects with err
Settle(p, how, err, reg) ==
    /\ stack' = [stack EXCEPT ![p] = <<>>]
    /\ call' = [call EXCEPT ![p] = None]
    /\ results' = Append(results, Result(p, how, err, reg))

Begin(p, op, target, loadNo, frames) ==
    /\ call[p].kind = "none"
    /\ ncalls < MaxCalls
    /\ ncalls' = ncalls + 1
    /\ call' = [call EXCEPT ![p] =
                   [kind |-> "call", cid |-> ncalls + 1, op |-> op, target |-> target,
                    loadNo |-> loadNo, wasRegistered |-> target \in models]]
    /\ stack' = [stack EXCEPT ![p] = frames]

Statement(p, kind, name, text) ==
    [cid |-> call[p].cid, proc |-> p, kind |-> kind, name |-> name, text |-> text,
     loadNo |-> call[p].loadNo, st |-> "pending"]

(***************************************************************************)
(* UDT.init (UDT.ts 78-85): registers the type; it awaits nothing, so a     *)
(* caller runs it between two of its awaited calls.                        *)
(***************************************************************************)
UDTInit(p, u) ==
    /\ u \in DOMAIN udtSchema
    /\ call[p].kind = "none"
    /\ client' = client \cup {u}
    /\ types' = types \cup {u}
    /\ UNCHANGED <<schema, udtSchema, models, primaryKey, stack, call, loads, ncalls,
                   log, results, dbTypes, dbTables, created, qin, qout, qres, connect>>

(***************************************************************************)
(* Model.load (Model.ts 476-500)                                           *)
(***************************************************************************)
\* the call: this.client = client, entries, columns = []
ModelLoad(p, m) ==
    /\ m \in DOMAIN schema
    /\ Begin(p, "load", m, loads[m] + 1, <<Frame("model", m)>>)
    /\ client' = client \cup {m}
    /\ loads' = [loads EXCEPT ![m] = @ + 1]
    /\ UNCHANGED <<schema, udtSchema, types, models, primaryKey, log, results,
                   dbTypes, dbTables, created, qin, qout, qres, connect>>

\* mutant: type.load() is not awaited, the column's fragment is returned at once
ModelGetColumnDefinitionNoAwait(p) ==
    /\ Busy(p)
    /\ Top(p).kind = "model"
    /\ Top(p).ph = "cols"
    /\ Top(p).i <= Len(schema[Top(p).name])
    /\ LET m == Top(p).name
           f == schema[m][Top(p).i]
           type == LookupFrozen(types, f.type.toks)
           r == ModelColumnDefinition(primaryKey[m], f)
       IN  IF f.type.frozen
           THEN IF ~Truthy(type)
                THEN /\ Settle(p, "error", ModelMissingType(m, f), models)
                     /\ UNCHANGED primaryKey
                ELSE /\ stack' = [stack EXCEPT ![p][Len(stack[p])] =
                                     [@ EXCEPT !.i = @ + 1,
                                               !.columns = Append(@, FrozenColumnDefinition(f))]]
                     /\ UNCHANGED <<call, results, primaryKey>>
           ELSE IF r.kind = "throw"
                THEN /\ Settle(p, "error", r.msg, models)
                     /\ UNCHANGED primaryKey
                ELSE /\ primaryKey' = [primaryKey EXCEPT ![m] = r.primaryKey]
                     /\ stack' = [stack EXCEPT ![p][Len(stack[p])] =
                                     [@ EXCEPT !.i = @ + 1, !.columns = Append(@, r.text)]]
                     /\ UNCHANGED <<call, results>>
    /\ UNCHANGED <<schema, udtSchema, client, types, models, loads, ncalls, log,
                   dbTypes, dbTables, created, qin, qout, qres, connect>>

\* one turn of the loop: columns.push(await this.getColumnDefinition(key, value)),
\* up to the await of type.load() for a FrozenType
ModelGetColumnDefinition(p) ==
    /\ Busy(p)
    /\ Top(p).kind = "model"
    /\ Top(p).ph = "cols"
    /\ Top(p).i <= Len(schema[Top(p).name])
    /\ LET m == Top(p).name
           f == schema[m][Top(p).i]
           type == LookupFrozen(types, f.type.toks)
           r == ModelColumnDefinition(primaryKey[m], f)
       IN  IF f.type.frozen
           THEN IF ~Truthy(type)
                THEN /\ Settle(p, "error", ModelMissingType(m, f), models)
                     /\ UNCHANGED primaryKey
                ELSE /\ Len(stack[p]) < MaxDepth
                     /\ stack' = [stack EXCEPT ![p] = Append(@, Frame("udt", type))]
                     /\ UNCHANGED <<call, results, primaryKey>>
           ELSE IF r.kind = "throw"
                THEN /\ Settle(p, "error", r.msg, models)
                     /\ UNCHANGED primaryKey
                ELSE /\ primaryKey' = [primaryKey EXCEPT ![m] = r.primaryKey]
                     /\ stack' = [stack EXCEPT ![p][Len(stack[p])] =
                                     [@ EXCEPT !.i = @ + 1, !.columns = Append(@, r.text)]]
                     /\ UNCHANGED <<call, results>>
    /\ UNCHANGED <<schema, udtSchema, client, types, models, loads, ncalls, log,
                   dbTypes, dbTables, created, qin, qout, qres, connect>>

\* after the loop: client.cassandara.execute(`CREATE TABLE IF NOT EXISTS ...`)
ModelLoadExecute(p) ==
    /\ Busy(p)
    /\ Top(p).kind = "model"
    /\ Top(p).ph = "cols"
    /\ Top(p).i > Len(schema[Top(p).name])
    /\ log' = Append(log, Statement(p, "table", Top(p).name,
                  CreateTable(Top(p).name, Top(p).columns, primaryKey[Top(p).name])))
    /\ stack' = [stack EXCEPT ![p][Len(stack[p])] =
                    [@ EXCEPT !.ph = "exec", !.sid = Len(log) + 1]]
    /\ UNCHANGED <<schema, udtSchema, client, types, models, primaryKey, call, loads,
                   ncalls, results, dbTypes, dbTables, created, qin, qout, qres, connect>>

(***************************************************************************)
(* UDT.load (UDT.ts 91-102)                                                *)
(***************************************************************************)
\* a direct call of type.load() by user code
UDTLoad(p, u) ==
    /\ u \in DOMAIN udtSchema
    /\ Begin(p, "loadType", u, 0, <<Frame("udt", u)>>)
    /\ UNCHANGED <<schema, udtSchema, client, types, models, primaryKey, loads, log,
                   results, dbTypes, dbTables, created, qin, qout, qres, connect>>

\* one turn of the loop of UDT.load
UDTGetColumnDefinition(p) ==
    /\ Busy(p)
    /\ Top(p).kind = "udt"
    /\ Top(p).ph = "cols"
    /\ Top(p).i <= Len(udtSchema[Top(p).name])
    /\ LET u == Top(p).name
           f == udtSchema[u][Top(p).i]
           type == LookupFrozen(types, f.type.toks)
           r == UDTColumnDefinition(f)
       IN  IF f.type.frozen
           THEN IF u \notin client
                THEN Settle(p, "error", NoClient, models)
                ELSE IF ~Truthy(type)
                THEN Settle(p, "error", UDTMissingType(u, f), models)
                ELSE /\ Len(stack[p]) < MaxDepth
                     /\ stack' = [stack EXCEPT ![p] = Append(@, Frame("udt", type))]
                     /\ UNCHANGED <<call, results>>
           ELSE IF r.kind = "throw"
                THEN Settle(p, "error", r.msg, models)
                ELSE /\ stack' = [stack EXCEPT ![p][Len(stack[p])] =
                                     [@ EXCEPT !.i = @ + 1, !.columns = Append(@, r.text)]]
                     /\ UNCHANGED <<call, results>>
    /\ UNCHANGED <<schema, udtSchema, client, types, models, primaryKey, loads, ncalls,
                   log, dbTypes, dbTables, created, qin, qout, qres, connect>>

\* after the loop: this.client.cassandara.execute(`CREATE TYPE IF NOT EXISTS ...`)
UDTLoadExecute(p) ==
    /\ Busy(p)
    /\ Top(p).kind = "udt"
    /\ Top(p).ph = "cols"
    /\ Top(p).i > Len(udtSchema[Top(p).name])
    /\ IF Top(p).name \notin client
       THEN /\ Settle(p, "error", NoClient, models)
            /\ UNCHANGED log
       ELSE /\ log' = Append(log, Statement(p, "type", Top(p).name,
                          CreateType(Top(p).name, Top(p).columns)))
            /\ stack' = [stack EXCEPT ![p][Len(stack[p])] =
                            [@ EXCEPT !.ph = "exec", !.sid = Len(log) + 1]]
            /\ UNCHANGED <<call, results>>
    /\ UNCHANGED <<schema, udtSchema, client, types, models, primaryKey, loads, ncalls,
                   dbTypes, dbTables, created, qin, qout, qres, connect>>

(***************************************************************************)
(* Model.drop (Model.ts 264-270) and UDT.drop (UDT.ts 68-72)               *)
(***************************************************************************)
ModelDrop(p, m) ==
    /\ m \in DOMAIN schema
    /\ Begin(p, "drop", m, 0, <<Frame("dropModel", m)>>)
    /\ UNCHANGED <<schema, udtSchema, client, types, models, primaryKey, loads, log,
                   results, dbTypes, dbTables, created, qin, qout, qres, connect>>

UDTDrop(p, u) ==
    /\ u \in DOMAIN udtSchema
    /\ Begin(p, "dropType", u, 0, <<Frame("dropType", u)>>)
    /\ UNCHANGED <<schema, udtSchema, client, types, models, primaryKey, loads, log,
                   results, dbTypes, dbTables, created, qin, qout, qres, connect>>

\* this.client.cassandara.execute(`DROP ... IF EXISTS ...`)
DropExecute(p) ==
    /\ Busy(p)
    /\ Top(p).kind \in {"dropModel", "dropType"}
    /\ Top(p).ph = "cols"
    /\ IF Top(p).name \notin client
       THEN /\ Settle(p, "error", NoClient, models)
            /\ UNCHANGED log
       ELSE /\ log' = Append(log, Statement(p, Top(p).kind, Top(p).name,
                          IF Top(p).kind = "dropModel" THEN DropTable(Top(p).name)
                          ELSE DropType(Top(p).name)))
            /\ stack' = [stack EXCEPT ![p][Len(stack[p])] =
                            [@ EXCEPT !.ph = "exec", !.sid = Len(log) + 1]]
            /\ UNCHANGED <<call, results>>
    /\ UNCHANGED <<schema, udtSchema, client, types, models, primaryKey, loads, ncalls,
                   dbTypes, dbTables, created, qin, qout, qres, connect>>

(***************************************************************************)
(* The awaited execute settles.  The backend honours IF [NOT] EXISTS.      *)
(***************************************************************************)
\* execute rejects: the exception leaves every frame of the call
ExecuteReject(p) ==
    /\ Busy(p)
    /\ Top(p).ph = "exec"
    /\ log' = [log EXCEPT ![Top(p).sid].st = "failed"]
    /\ Settle(p, "error", "BackendExecutionFailure", models)
    /\ UNCHANGED <<schema, udtSchema, client, types, models, primaryKey, loads, ncalls,
                   dbTypes, dbTables, created, qin, qout, qres, connect>>

\* CREATE TABLE resolved: client.models.set(this.name, this)
ModelLoadResolve(p) ==
    /\ Busy(p)
    /\ Top(p).kind = "model"
    /\ Top(p).ph = "exec"
    /\ log' = [log EXCEPT ![Top(p).sid].st = "ok"]
    /\ dbTables' = dbTables \cup {Top(p).name}
    /\ models' = models \cup {Top(p).name}
    /\ Settle(p, "ok", "", models \cup {Top(p).name})
    /\ UNCHANGED <<schema, udtSchema, client, types, primaryKey, loads, ncalls,
                   dbTypes, created, qin, qout, qres, connect>>

\* CREATE TYPE resolved: UDT.load returns; the awaiting getColumnDefinition returns
\* `${fieldName} frozen<${fieldType.udt}>` and the caller's loop pushes it
UDTLoadResolve(p) ==
    /\ Busy(p)
    /\ Top(p).kind = "udt"
    /\ Top(p).ph = "exec"
    /\ log' = [log EXCEPT ![Top(p).sid].st = "ok"]
    /\ dbTypes' = dbTypes \cup {Top(p).name}
    /\ created' = [created EXCEPT ![Top(p).name] =
                      IF Top(p).name \in dbTypes THEN @ ELSE @ + 1]
    /\ IF Len(stack[p]) = 1
       THEN Settle(p, "ok", "", models)
       ELSE LET up == stack[p][Len(stack[p]) - 1]
                f == IF up.kind = "model" THEN schema[up.name][up.i]
                     ELSE udtSchema[up.name][up.i]
            IN  /\ stack' = [stack EXCEPT ![p] =
                       Append(SubSeq(@, 1, Len(@) - 2),
                              [up EXCEPT !.i = @ + 1,
                                         !.columns = Append(@, FrozenColumnDefinition(f))])]
                /\ UNCHANGED <<call, results>>
    /\ UNCHANGED <<schema, udtSchema, client, types, models, primaryKey, loads, ncalls,
                   dbTables, qin, qout, qres, connect>>

\* mutant: the resolved drop empties the registry
ModelDropResolveClear(p) ==
    /\ Busy(p)
    /\ Top(p).kind = "dropModel"
    /\ Top(p).ph = "exec"
    /\ log' = [log EXCEPT ![Top(p).sid].st = "ok"]
    /\ dbTables' = dbTables \ {Top(p).name}
    /\ models' = {}
    /\ Settle(p, "ok", "", {})
    /\ UNCHANGED <<schema, udtSchema, client, types, primaryKey, loads, ncalls,
                   dbTypes, created, qin, qout, qres, connect>>

\* DROP TABLE resolved: this.client.models.delete(this.name)
ModelDropResolve(p) ==
    /\ Busy(p)
    /\ Top(p).kind = "dropModel"
    /\ Top(p).ph = "exec"
    /\ log' = [log EXCEPT ![Top(p).sid].st = "ok"]
    /\ dbTables' = dbTables \ {Top(p).name}
    /\ models' = models \ {Top(p).name}
    /\ Settle(p, "ok", "", models \ {Top(p).name})
    /\ UNCHANGED <<schema, udtSchema, client, types, primaryKey, loads, ncalls,
                   dbTypes, created, qin, qout, qres, connect>>

\* mutant: the resolved DROP TYPE leaves the type registry as it was
UDTDropResolveKeep(p) ==
    /\ Busy(p)
    /\ Top(p).kind = "dropType"
    /\ Top(p).ph = "exec"
    /\ log' = [log EXCEPT ![Top(p).sid].st = "ok"]
    /\ dbTypes' = dbTypes \ {Top(p).name}
    /\ Settle(p, "ok", "", models)
    /\ UNCHANGED <<schema, udtSchema, client, types, models, primaryKey, loads, ncalls,
                   dbTables, created, qin, qout, qres, connect>>

\* DROP TYPE resolved: this.client.types.delete(this.name)
UDTDropResolve(p) ==
    /\ Busy(p)
    /\ Top(p).kind = "dropType"
    /\ Top(p).ph = "exec"
    /\ log' = [log EXCEPT ![Top(p).sid].st = "ok"]
    /\ dbTypes' = dbTypes \ {Top(p).name}
    /\ types' = types \ {Top(p).name}
    /\ Settle(p, "ok", "", models)
    /\ UNCHANGED <<schema, udtSchema, client, models, primaryKey, loads, ncalls,
                   dbTables, created, qin, qout, qres, connect>>

(***************************************************************************)
(* The schemas the model draws from.                                       *)
(***************************************************************************)
ColName(i) == "c" \o ToString(i)

Uuid == StringType(<<"uuid">>)
Text == StringType(<<"text">>)
SetOfText == StringType(<<"set", "<", "text", ">">>)
ListOfInt == StringType(<<"list", "<", "int", ">">>)
MapOfTextInt == StringType(<<"map", "<", "text", ",", "int", ">">>)
Foo == StringType(<<"foo">>)
TextOfInt == StringType(<<"text", "<", "int", ">">>)
FrozenAddress == FrozenType(<<"address">>)
FrozenWrapped == FrozenType(<<"frozen", "<", "address", ">">>)
FrozenPerson == FrozenType(<<"person">>)
FrozenOrphan == FrozenType(<<"orphan">>)
FrozenGhost == FrozenType(<<"ghost">>)

Plain(t) == [type |-> t, partitionKey |-> FALSE, cluseringKey |-> FALSE]
Partition(t) == [type |-> t, partitionKey |-> TRUE, cluseringKey |-> FALSE]
Clustering(t) == [type |-> t, partitionKey |-> FALSE, cluseringKey |-> TRUE]
BothKeys(t) == [type |-> t, partitionKey |-> TRUE, cluseringKey |-> TRUE]

Descriptors ==
    {Plain(Uuid), Partition(Uuid), Clustering(Uuid), BothKeys(Uuid),
     Plain(Text), Clustering(Text),
     Plain(SetOfText), Partition(SetOfText), Plain(ListOfInt), Plain(MapOfTextInt),
     Plain(Foo), Plain(TextOfInt),
     Plain(FrozenAddress), Partition(FrozenAddress), Plain(FrozenWrapped),
     Plain(FrozenPerson), Plain(FrozenOrphan), Plain(FrozenGhost)}

\* the definition object of a schema: its i-th key is named ColName(i)
RECURSIVE Named(_)
Named(ds) ==
    IF Len(ds) = 0 THEN <<>>
    ELSE Append(Named(SubSeq(ds, 1, Len(ds) - 1)),
                SchemaOptionsField(ColName(Len(ds)), ds[Len(ds)].type,
                                   ds[Len(ds)].partitionKey, ds[Len(ds)].cluseringKey))

Schemas == {Named(ds) : ds \in UNION {[1..n -> Descriptors] : n \in 1..MaxCols}}

\* the UDT files of the application
UDTs ==
    [address |-> Named(<<Plain(Text), Plain(StringType(<<"int">>))>>),
     person |-> Named(<<Plain(Text), Plain(FrozenAddress)>>),
     orphan |-> Named(<<Plain(FrozenGhost)>>)]

\* the schemas of the interleaved loads
SharedSchemas ==
    {Named(<<Partition(Uuid), Plain(FrozenAddress)>>),
     Named(<<Partition(Uuid), Clustering(Text)>>),
     Named(<<Plain(FrozenPerson), Partition(Uuid)>>)}

(***************************************************************************)
(* Initial states: the Model and UDT objects constructed (primaryKey =     *)
(* [[], []]), the Client constructed, and init run for the UDTs of inited  *)
(* (Client.connect runs it for every file of typesPath).                   *)
(***************************************************************************)
InitLoad(tables, procs, inited) ==
    /\ udtSchema = UDTs
    /\ client = inited
    /\ types = inited
    /\ models = {}
    /\ primaryKey = [m \in tables |-> <<<<>>, <<>>>>]
    /\ stack = [p \in procs |-> <<>>]
    /\ call = [p \in procs |-> None]
    /\ loads = [m \in tables |-> 0]
    /\ ncalls = 0
    /\ log = <<>>
    /\ results = <<>>
    /\ dbTypes = {}
    /\ dbTables = {}
    /\ created = [u \in DOMAIN UDTs |-> 0]

Init ==
    /\ schema \in [{"users"} -> Schemas]
    /\ InitLoad({"users"}, {1}, {})
    /\ qin = None
    /\ qout = None
    /\ qres = None
    /\ connect = None

InitShared ==
    /\ schema \in [{"users", "events"} -> SharedSchemas]
    /\ InitLoad({"users", "events"}, {1, 2}, DOMAIN UDTs)
    /\ qin = None
    /\ qout = None
    /\ qres = None
    /\ connect = None

\* the calls of an application that loads and drops its models
ModelCalls ==
    \/ \E p \in Procs, m \in DOMAIN schema : ModelLoad(p, m)
    \/ \E p \in Procs, m \in DOMAIN schema : ModelDrop(p, m)

\* the calls of an application that loads and drops its types itself
TypeCalls ==
    \/ \E p \in Procs, u \in DOMAIN udtSchema : UDTLoad(p, u)
    \/ \E p \in Procs, u \in DOMAIN udtSchema : UDTDrop(p, u)

\* a call in progress continues
Continue ==
    \/ \E p \in Procs : ModelGetColumnDefinition(p)
    \/ \E p \in Procs : ModelLoadExecute(p)
    \/ \E p \in Procs : UDTGetColumnDefinition(p)
    \/ \E p \in Procs : UDTLoadExecute(p)
    \/ \E p \in Procs : DropExecute(p)
    \/ \E p \in Procs : ExecuteReject(p)
    \/ \E p \in Procs : ModelLoadResolve(p)
    \/ \E p \in Procs : UDTLoadResolve(p)
    \/ \E p \in Procs : ModelDropResolve(p)

Next == ModelCalls \/ Continue \/ \E p \in Procs, u \in DOMAIN udtSchema : UDTInit(p, u)

NextShared == ModelCalls \/ TypeCalls \/ Continue \/ \E p \in Procs : UDTDropResolve(p)

\* one caller, one model, every schema
Spec == Init /\ [][Next]_vars

\* two callers, two models, interleaved at the awaits
SpecShared == InitShared /\ [][NextShared]_vars

\* the application has loaded events; users is constructed and not loaded
InitRegistry ==
    /\ schema \in {[users |-> u, events |-> Named(<<Partition(Uuid), Clustering(Text)>>)] :
                       u \in SharedSchemas}
    /\ udtSchema = UDTs
    /\ client = DOMAIN UDTs \cup {"events"}
    /\ types = DOMAIN UDTs
    /\ models = {"events"}
    /\ primaryKey = [users |-> <<<<>>, <<>>>>, events |-> <<<<"c1">>, <<"c2">>>>]
    /\ stack = [p \in {1, 2} |-> <<>>]
    /\ call = [p \in {1, 2} |-> None]
    /\ loads = [users |-> 0, events |-> 1]
    /\ ncalls = 0
    /\ log = <<[cid |-> 0, proc |-> 1, kind |-> "table", name |-> "events",
                text |-> CreateTable("events", <<"c1 uuid", "c2 text">>,
                                     <<<<"c1">>, <<"c2">>>>),
                loadNo |-> 1, st |-> "ok"]>>
    /\ results = <<[cid |-> 0, proc |-> 1, op |-> "load", target |-> "events",
                    loadNo |-> 1, result |-> "ok", err |-> "", chain |-> <<"events">>,
                    wasRegistered |-> FALSE, registered |-> TRUE]>>
    /\ dbTypes = {}
    /\ dbTables = {"events"}
    /\ created = [u \in DOMAIN UDTs |-> 0]
    /\ qin = None
    /\ qout = None
    /\ qres = None
    /\ connect = None

\* loads and drops of two models on one client, one of them loaded before
SpecRegistry == InitRegistry /\ [][NextShared]_vars

\* UDT files that reference each other, and one that references itself
CyclicUDTs ==
    [a |-> Named(<<Plain(Text), Plain(FrozenType(<<"b">>))>>),
     b |-> Named(<<Plain(FrozenType(<<"a">>))>>),
     self |-> Named(<<Plain(FrozenType(<<"self">>))>>),
     address |-> Named(<<Plain(Text), Plain(StringType(<<"int">>))>>)]

CyclicSchemas ==
    {Named(<<Partition(Uuid), Plain(FrozenType(<<"a">>))>>),
     Named(<<Partition(Uuid), Plain(FrozenType(<<"self">>))>>),
     Named(<<Partition(Uuid), Plain(FrozenAddress)>>),
     Named(<<Partition(Uuid), Clustering(Text)>>)}

\* Client.connect has run init for every UDT file; no model is loaded
InitCycle ==
    /\ schema \in [{"users"} -> CyclicSchemas]
    /\ udtSchema = CyclicUDTs
    /\ client = DOMAIN CyclicUDTs
    /\ types = DOMAIN CyclicUDTs
    /\ models = {}
    /\ primaryKey = [m \in {"users"} |-> <<<<>>, <<>>>>]
    /\ stack = [p \in {1} |-> <<>>]
    /\ call = [p \in {1} |-> None]
    /\ loads = [m \in {"users"} |-> 0]
    /\ ncalls = 0
    /\ log = <<>>
    /\ results = <<>>
    /\ dbTypes = {}
    /\ dbTables = {}
    /\ created = [u \in DOMAIN CyclicUDTs |-> 0]
    /\ qin = None
    /\ qout = None
    /\ qres = None
    /\ connect = None

\* loads of a model and of UDTs over a registry with cyclic references
SpecCycle == InitCycle /\ [][NextShared]_vars

(***************************************************************************)
(* The statement builders: Model.select, selectAll, count, delete, update  *)
(* (Model.ts 181-443) and BatchDelete, BatchUpdate (Batch.ts 17-83).       *)
(* A value is a scalar or an array; a number is kept in tenths.            *)
(***************************************************************************)
Scalar(n) == [arr |-> FALSE, items |-> <<n>>]

Array(items) == [arr |-> TRUE, items |-> items]

\* the keys of conditionHandlers
Handlers ==
    {"equals", "notEquals", "in", "notIn", "greaterThanOrEqual", "lessThanOrEqual",
     "contains", "notContains"}

\* the keys the WhereClause type admits (lib/types/index.d.ts)
WhereClause == Handlers \cup {"moreThan", "lessThan"}

\* mutant: notIn pushes the fragment of in
ModelFragmentNotInAsIn(op, k) ==
    CASE op = "equals" -> k \o "=?"
      [] op = "notEquals" -> k \o "=?"
      [] op = "in" -> k \o " IN ?"
      [] op = "notIn" -> k \o " IN ?"
      [] op = "greaterThanOrEqual" -> k \o ">=?"
      [] op = "lessThanOrEqual" -> k \o "<=?"
      [] op = "contains" -> k \o " CONTAINS ?"
      [] op = "notContains" -> k \o " DOES NOT CONTAIN ?"

\* the fragment a handler of Model.select/selectAll/count/delete/update pushes
ModelFragment(op, k) ==
    CASE op = "equals" -> k \o "=?"
      [] op = "notEquals" -> k \o "=?"
      [] op = "in" -> k \o " IN ?"
      [] op = "notIn" -> k \o " NOT IN ?"
      [] op = "greaterThanOrEqual" -> k \o ">=?"
      [] op = "lessThanOrEqual" -> k \o "<=?"
      [] op = "contains" -> k \o " CONTAINS ?"
      [] op = "notContains" -> k \o " DOES NOT CONTAIN ?"

\* the fragment a handler of BatchDelete/BatchUpdate pushes (v.map needs an array)
BatchFragment(op, k, v) ==
    CASE op = "equals" -> k \o "=?"
      [] op = "notEquals" -> k \o "=?"
      [] op = "in" -> k \o " IN (" \o Join([i \in 1..Len(v.items) |-> "?"], ", ") \o ")"
      [] op = "notIn" -> k \o " IN (" \o Join([i \in 1..Len(v.items) |-> "?"], ", ") \o ")"
      [] op = "greaterThanOrEqual" -> k \o ">=?"
      [] op = "lessThanOrEqual" -> k \o "<=?"
      [] op = "contains" -> k \o " CONTAINS ?"
      [] op = "notContains" -> k \o " DOES NOT CONTAIN ?"

\* conditionHandlers[operator](k.toString(), v) throws a TypeError
HandlerThrows(batch, c) ==
    \/ c.op \notin Handlers
    \/ batch /\ c.op \in {"in", "notIn"} /\ ~c.v.arr

\* for (const condition of $where) ...: conditions = [fragments, params]
RECURSIVE Conditions(_, _, _)
Conditions(batch, where, conditions) ==
    IF Len(where) = 0 THEN [kind |-> "ok", conditions |-> conditions]
    ELSE IF HandlerThrows(batch, Head(where)) THEN [kind |-> "throw", conditions |-> conditions]
    ELSE Conditions(batch, Tail(where),
             <<Append(conditions[1],
                      IF batch THEN BatchFragment(Head(where).op, Head(where).k, Head(where).v)
                      ELSE ModelFragment(Head(where).op, Head(where).k)),
               Append(conditions[2], Head(where).v)>>)

Floor(tenths) == tenths \div 10

\* $limit ? `LIMIT ${Math.max(1, Math.floor($limit))}` : ''
LimitClause(limit) ==
    IF limit.defined /\ limit.tenths # 0
    THEN "LIMIT " \o ToString(Max(1, Floor(limit.tenths)))
    ELSE ""

\* mutant: the parameters of WHERE are put before those of SET
UpdateParamsWhereFirst(setValues, whereValues) == whereValues \o setValues

\* [...conditions[1], ...conditions[3]]
UpdateParams(setValues, whereValues) == setValues \o whereValues

Table(name) == Keyspace \o "." \o name

SelectQuery(name, include, body, limitClause) ==
    "\n      SELECT " \o (IF include.defined THEN Join(include.cols, ", ") ELSE "*")
        \o " \n      FROM " \o Table(name) \o "\n      WHERE " \o body
        \o "\n      " \o limitClause \o ";"

SelectAllQuery(name, include, body) ==
    "\n      SELECT " \o (IF include.defined THEN Join(include.cols, ", ") ELSE "*")
        \o " \n      FROM " \o Table(name) \o "\n      WHERE " \o body

CountQuery(name, body, limitClause) ==
    "\n      SELECT COUNT(*) \n      FROM " \o Table(name) \o "\n      WHERE " \o body
        \o "\n      " \o limitClause \o ";"

DeleteQuery(name, body, limitClause) ==
    "\n      DELETE FROM " \o Table(name) \o "\n      WHERE " \o body
        \o "\n      " \o limitClause \o ";"

UpdateQuery(name, assignments, body) ==
    "\n    UPDATE " \o Table(name) \o "\n    SET " \o assignments
        \o "\n    WHERE " \o body \o "\n    IF EXISTS;\n    "

\* the token Client.batch replaces
Placeholder == "{keyspace}"

\* the query of BatchDelete, cut around the placeholder
BatchDeleteParts(name, body, limitClause) ==
    <<"\n        DELETE FROM ", Placeholder,
      "." \o name \o "\n        WHERE " \o body \o "\n        " \o limitClause
          \o ";\n        ">>

BatchDeleteQuery(name, body, limitClause) == Str(BatchDeleteParts(name, body, limitClause))

\* the query of BatchUpdate, cut around the placeholder
BatchUpdateParts(name, assignments, body, limitClause) ==
    <<"\n        UPDATE ", Placeholder,
      "." \o name \o "\n        SET " \o assignments \o "\n        WHERE " \o body
          \o "\n        " \o limitClause \o ";\n        ">>

BatchUpdateQuery(name, assignments, body, limitClause) ==
    Str(BatchUpdateParts(name, assignments, body, limitClause))

\* the query of BatchInsert, cut around the placeholder
BatchInsertParts(name, data) ==
    <<"\n        INSERT INTO ", Placeholder,
      "." \o name \o " (" \o Join([i \in 1..Len(data) |-> data[i].name], ", ")
          \o ")\n        VALUES (" \o Join([i \in 1..Len(data) |-> "?"], ", ")
          \o ")\n        ">>

BatchInsertQuery(name, data) == Str(BatchInsertParts(name, data))

InsertQuery(name, data) ==
    "\n      INSERT INTO " \o Keyspace \o "." \o name \o " ("
        \o Join([i \in 1..Len(data) |-> data[i].name], ", ")
        \o ")\n      VALUES (" \o Join([i \in 1..Len(data) |-> "?"], ", ")
        \o ")\n      IF NOT EXISTS;\n      "

SetNames(set) == [i \in 1..Len(set) |-> set[i].name]

SetValues(set) == [i \in 1..Len(set) |-> set[i].value]

\* the call ends in execute(query, params), in a returned BatchStatement, or in a throw
Built(how, query, params, conditions) ==
    [kind |-> how, query |-> query, params |-> params, conditions |-> conditions]

Thrown == [kind |-> "throw", query |-> "", params |-> <<>>, conditions |-> <<<<>>, <<>>>>]

Builder(fn) ==
    /\ qin.kind = "args"
    /\ qin.fn = fn
    /\ qout.kind = "none"
    /\ UNCHANGED <<schema, udtSchema, client, types, models, primaryKey, stack, call,
                   loads, ncalls, log, results, dbTypes, dbTables, created, qin, qres, connect>>

Select ==
    /\ Builder("select")
    /\ LET c == Conditions(FALSE, qin.where, <<<<>>, <<>>>>)
       IN  qout' = IF c.kind = "throw" \/ qin.name \notin client THEN Thrown
                   ELSE Built("execute",
                              SelectQuery(qin.name, qin.include,
                                          Join(c.conditions[1], " AND "), LimitClause(qin.limit)),
                              c.conditions[2], c.conditions)

SelectAll ==
    /\ Builder("selectAll")
    /\ LET c == Conditions(FALSE, qin.where, <<<<>>, <<>>>>)
       IN  qout' = IF c.kind = "throw" \/ qin.name \notin client THEN Thrown
                   ELSE Built("execute",
                              SelectAllQuery(qin.name, qin.include, Join(c.conditions[1], " AND ")),
                              c.conditions[2], c.conditions)

Count ==
    /\ Builder("count")
    /\ LET c == Conditions(FALSE, qin.where, <<<<>>, <<>>>>)
       IN  qout' = IF c.kind = "throw" \/ qin.name \notin client THEN Thrown
                   ELSE Built("execute",
                              CountQuery(qin.name, Join(c.conditions[1], " AND "),
                                         LimitClause(qin.limit)),
                              c.conditions[2], c.conditions)

Delete ==
    /\ Builder("delete")
    /\ LET c == Conditions(FALSE, qin.where, <<<<>>, <<>>>>)
       IN  qout' = IF c.kind = "throw" \/ qin.name \notin client THEN Thrown
                   ELSE Built("execute",
                              DeleteQuery(qin.name, Join(c.conditions[1], " AND "),
                                          LimitClause(qin.limit)),
                              c.conditions[2], c.conditions)

Update ==
    /\ Builder("update")
    /\ LET c == Conditions(FALSE, qin.where, <<<<>>, <<>>>>)
       IN  qout' = IF c.kind = "throw" \/ qin.name \notin client THEN Thrown
                   ELSE Built("execute",
                              UpdateQuery(qin.name,
                                  Join([i \in 1..Len(qin.set) |-> SetNames(qin.set)[i] \o "=?"], ", "),
                                  Join(c.conditions[1], " AND ")),
                              UpdateParams(SetValues(qin.set), c.conditions[2]), c.conditions)

BatchDelete ==
    /\ Builder("BatchDelete")
    /\ LET c == Conditions(TRUE, qin.where, <<<<>>, <<>>>>)
       IN  qout' = IF c.kind = "throw" THEN Thrown
                   ELSE Built("return",
                              BatchDeleteQuery(qin.name, Join(c.conditions[1], " AND "),
                                               LimitClause(qin.limit)),
                              c.conditions[2], c.conditions)

BatchUpdate ==
    /\ Builder("BatchUpdate")
    /\ LET c == Conditions(TRUE, qin.where, <<<<>>, <<>>>>)
       IN  qout' = IF c.kind = "throw" THEN Thrown
                   ELSE Built("return",
                              BatchUpdateQuery(qin.name,
                                  Join([i \in 1..Len(qin.set) |-> SetNames(qin.set)[i] \o " = ?"], " AND "),
                                  Join(c.conditions[1], " AND "), LimitClause(qin.limit)),
                              SetValues(qin.set) \o c.conditions[2], c.conditions)

(***************************************************************************)
(* The arguments the model draws from.                                     *)
(***************************************************************************)
NoLimit == [defined |-> FALSE, tenths |-> 0]

Limit(tenths) == [defined |-> TRUE, tenths |-> tenths]

NoInclude == [defined |-> FALSE, cols |-> <<>>]

Include(cols) == [defined |-> TRUE, cols |-> cols]

\* one condition per operator on a scalar-valued and on an array-valued column
Conds ==
    {[op |-> o, k |-> "a", v |-> Scalar(7)] : o \in WhereClause}
        \cup {[op |-> o, k |-> "b", v |-> Array(<<1, 2>>)] : o \in WhereClause}

RECURSIVE Lists(_, _)
Lists(S, n) ==
    IF n = 0 THEN {<<>>}
    ELSE Lists(S, n - 1) \cup {Append(l, x) : l \in {l \in Lists(S, n - 1) : Len(l) = n - 1}, x \in S}

Wheres == Lists(Conds, MaxConds)

\* undefined, 0, 0.5, 1, 2.7, -1
Limits == {NoLimit, Limit(0), Limit(5), Limit(10), Limit(27), Limit(-10)}

Includes == {NoInclude, Include(<<"a", "b">>)}

Sets ==
    {<<>>, <<[name |-> "name", value |-> Scalar(1)]>>,
     <<[name |-> "name", value |-> Scalar(1)], [name |-> "age", value |-> Scalar(30)]>>}

Args(fn, where, limit, include, set) ==
    [kind |-> "args", fn |-> fn, name |-> "users", where |-> where, limit |-> limit,
     include |-> include, set |-> set]

QueryInputs ==
    {Args("select", w, l, i, <<>>) : w \in Wheres, l \in Limits, i \in Includes}
        \cup {Args("selectAll", w, NoLimit, i, <<>>) : w \in Wheres, i \in Includes}
        \cup {Args(fn, w, l, NoInclude, <<>>) :
                  fn \in {"count", "delete", "BatchDelete"}, w \in Wheres, l \in Limits}
        \cup {Args("update", w, NoLimit, NoInclude, s) : w \in Wheres, s \in Sets}
        \cup {Args("BatchUpdate", w, l, NoInclude, s) : w \in Wheres, l \in Limits, s \in Sets}

\* the state after users.load(client) resolved
Loaded ==
    /\ schema = [m \in {"users"} |-> Named(<<Partition(Uuid)>>)]
    /\ udtSchema = UDTs
    /\ client = {"users"}
    /\ types = {}
    /\ models = {"users"}
    /\ primaryKey = [m \in {"users"} |-> <<<<"c1">>, <<>>>>]
    /\ stack = [p \in {1} |-> <<>>]
    /\ call = [p \in {1} |-> None]
    /\ loads = [m \in {"users"} |-> 1]
    /\ ncalls = 1
    /\ log = <<[cid |-> 1, proc |-> 1, kind |-> "table", name |-> "users",
                text |-> CreateTable("users", <<"c1 uuid">>, <<<<"c1">>, <<>>>>),
                loadNo |-> 1, st |-> "ok"]>>
    /\ results = <<[cid |-> 1, proc |-> 1, op |-> "load", target |-> "users",
                    loadNo |-> 1, result |-> "ok", err |-> "", chain |-> <<"users">>,
                    wasRegistered |-> FALSE, registered |-> TRUE]>>
    /\ dbTypes = {}
    /\ dbTables = {"users"}
    /\ created = [u \in DOMAIN UDTs |-> 0]

\* a loaded model, and the arguments of one call of a builder
InitQuery ==
    /\ Loaded
    /\ qin \in QueryInputs
    /\ qout = None
    /\ qres = None
    /\ connect = None

NextQuery ==
    \/ Select
    \/ SelectAll
    \/ Count
    \/ Delete
    \/ Update
    \/ BatchDelete
    \/ BatchUpdate

\* one call of one statement builder, for every argument
SpecQuery == InitQuery /\ [][NextQuery]_vars

(***************************************************************************)
(* The calls in full: the statement, the answer of the backend to execute, *)
(* and how the promise of the call settles.                                *)
(***************************************************************************)
\* the values a call resolves with
Rows(rows) == [type |-> "rows", rows |-> rows, n |-> 0]

Null == [type |-> "null", rows |-> <<>>, n |-> 0]

Number(n) == [type |-> "number", rows |-> <<>>, n |-> n]

Void == [type |-> "undefined", rows |-> <<>>, n |-> 0]

\* a ResultSet of the driver
ResultSet(rows) == [rows |-> rows, rowLength |-> Len(rows)]

\* a 64-bit integer of the driver: two signed 32-bit words
Long(low, high) == [low |-> low, high |-> high]

\* the settled promise of a call; executeFailed: the backend rejected its execute
Resolved(value, data) ==
    [kind |-> "resolve", value |-> value, err |-> "", data |-> data, executeFailed |-> FALSE]

Rejected(err) ==
    [kind |-> "reject", value |-> Void, err |-> err, data |-> ResultSet(<<>>),
     executeFailed |-> TRUE]

\* the backend answers the pending execute of builder fn
Awaiting(fn) ==
    /\ qin.kind = "args"
    /\ qin.fn = fn
    /\ qout.kind = "execute"
    /\ qres.kind = "none"
    /\ UNCHANGED <<schema, udtSchema, client, types, models, primaryKey, stack, call,
                   loads, ncalls, log, results, dbTypes, dbTables, created, qin, qout, connect>>

\* the rows a SELECT may answer with
RowSets == {<<>>, <<"r1">>, <<"r1", "r2">>}

\* the counts SELECT COUNT(*) may answer with: 0, 1, 2, 2^31 - 1, 2^32, 2^32 + 1
Counts ==
    {Long(0, 0), Long(1, 0), Long(2, 0), Long(2147483647, 0), Long(0, 1), Long(1, 1)}

\* return data.rows
SelectValue(data) == Rows(data.rows)

\* mutant: selectAll returns the rows whatever their number
SelectAllValueRows(data) == Rows(data.rows)

\* if (data.rowLength < 1) return null; ... return data.rows
SelectAllValue(data) == IF data.rowLength < 1 THEN Null ELSE Rows(data.rows)

\* return data.rows[0].get("count").high
CountValue(data) == Number(data.rows[1].count.high)

SelectResolve ==
    /\ Awaiting("select")
    /\ \E rows \in RowSets : qres' = Resolved(SelectValue(ResultSet(rows)), ResultSet(rows))

SelectAllResolve ==
    /\ Awaiting("selectAll")
    /\ \E rows \in RowSets : qres' = Resolved(SelectAllValue(ResultSet(rows)), ResultSet(rows))

CountResolve ==
    /\ Awaiting("count")
    /\ \E c \in Counts :
           qres' = Resolved(CountValue(ResultSet(<<[count |-> c]>>)),
                            ResultSet(<<[count |-> c]>>))

\* delete, update, alter, insert: nothing is returned
VoidResolve ==
    /\ \E fn \in {"delete", "update", "alter", "insert"} : Awaiting(fn)
    /\ qres' = Resolved(Void, ResultSet(<<>>))

\* execute rejects: no builder of Model catches, the promise of the call rejects
ExecuteRejects ==
    /\ \E fn \in {"select", "selectAll", "count", "delete", "update", "alter", "insert"} :
           Awaiting(fn)
    /\ qres' = Rejected("BackendExecutionFailure")

(***************************************************************************)
(* Model.alter (Model.ts 115-158).  An optional argument is given or not.  *)
(***************************************************************************)
Given(v) == [defined |-> TRUE, v |-> v]

NotGiven == [defined |-> FALSE, v |-> <<>>]

\* `${key.toString()} ${definition[key]?.type}` for key = Object.keys(definition)[0]
AddColumn(definition) == definition[1].name \o " " \o Str(definition[1].type.toks)

\* mutant: the DROP fragment is pushed before the ADD fragment
AlterFragmentsDropFirst(a) ==
    (IF a.alter.defined
     THEN <<"ALTER " \o a.alter.v.column \o " TYPE " \o Str(a.alter.v.type.toks)>>
     ELSE <<>>)
    \o (IF a.drop.defined /\ Len(a.drop.v) > 0
        THEN <<"DROP " \o Join(a.drop.v, ", ")>>
        ELSE <<>>)
    \o (IF a.add.defined /\ Len(a.add.v) > 0
        THEN <<"ADD " \o Join([i \in 1..Len(a.add.v) |-> AddColumn(a.add.v[i])], ", ")>>
        ELSE <<>>)
    \o (IF a.rename.defined /\ Len(a.rename.v) > 1
        THEN <<"RENAME " \o a.rename.v[1] \o " TO " \o a.rename.v[2]>>
        ELSE <<>>)

\* the array queries after the four tests
AlterFragments(a) ==
    (IF a.alter.defined
     THEN <<"ALTER " \o a.alter.v.column \o " TYPE " \o Str(a.alter.v.type.toks)>>
     ELSE <<>>)
    \o (IF a.add.defined /\ Len(a.add.v) > 0
        THEN <<"ADD " \o Join([i \in 1..Len(a.add.v) |-> AddColumn(a.add.v[i])], ", ")>>
        ELSE <<>>)
    \o (IF a.drop.defined /\ Len(a.drop.v) > 0
        THEN <<"DROP " \o Join(a.drop.v, ", ")>>
        ELSE <<>>)
    \o (IF a.rename.defined /\ Len(a.rename.v) > 1
        THEN <<"RENAME " \o a.rename.v[1] \o " TO " \o a.rename.v[2]>>
        ELSE <<>>)

AlterQuery(name, queries) == "ALTER TABLE " \o Table(name) \o "\n" \o Join(queries, "\n") \o ";"

Alter ==
    /\ Builder("alter")
    /\ qout' = IF qin.name \notin client THEN Thrown
               ELSE Built("execute", AlterQuery(qin.name, AlterFragments(qin)), <<>>,
                          <<<<>>, <<>>>>)

AlterArgs(alter, add, drop, rename) ==
    [kind |-> "args", fn |-> "alter", name |-> "users", alter |-> alter, add |-> add,
     drop |-> drop, rename |-> rename]

AlterInputs ==
    {AlterArgs(al, ad, dr, re) :
         al \in {NotGiven, Given([column |-> "c2", type |-> Text])},
         ad \in {NotGiven, Given(<<>>),
                 Given(<<<<SchemaOptionsField("c3", Text, FALSE, FALSE)>>>>),
                 Given(<<<<SchemaOptionsField("c3", Text, FALSE, FALSE)>>,
                         <<SchemaOptionsField("c4", ListOfInt, FALSE, FALSE)>>>>)},
         dr \in {NotGiven, Given(<<>>), Given(<<"c5">>), Given(<<"c5", "c6">>)},
         re \in {NotGiven, Given(<<"c7", "c8">>)}}

(***************************************************************************)
(* Model.insert (Model.ts 460-469) and BatchInsert (Batch.ts 4-15).        *)
(***************************************************************************)
\* the second parameter is destructured: a call without it throws a TypeError
Insert ==
    /\ Builder("insert")
    /\ qout' = IF ~qin.options.defined \/ qin.name \notin client THEN Thrown
               ELSE Built("execute", InsertQuery(qin.name, qin.data), SetValues(qin.data),
                          <<<<>>, <<>>>>)

BatchInsert ==
    /\ Builder("BatchInsert")
    /\ qout' = Built("return", BatchInsertQuery(qin.name, qin.data), SetValues(qin.data),
                     <<<<>>, <<>>>>)

InsertArgs(fn, data, options) ==
    [kind |-> "args", fn |-> fn, name |-> "users", data |-> data, options |-> options]

InsertInputs ==
    {InsertArgs("insert", d, o) : d \in Sets, o \in {NotGiven, Given(<<>>)}}
        \cup {InsertArgs("BatchInsert", d, NotGiven) : d \in Sets}

(***************************************************************************)
(* MaterialView.load (lib/MaterialView.js): the whole body is in a try     *)
(* whose catch logs the error.                                             *)
(***************************************************************************)
MaterialViewQuery(name, options) ==
    LET partitionKey ==
            <<SelectSeq(options.columns, LAMBDA c : c.primary),
              SelectSeq(options.columns, LAMBDA c : ~c.primary)>>
    IN  "\n      CREATE MATERIALIZED VIEW IF NOT EXISTS " \o Keyspace \o "." \o name
            \o " AS\n      SELECT "
            \o (IF options.include.defined THEN Join(options.include.cols, ", ") ELSE "*")
            \o " FROM " \o Keyspace \o "." \o options.tableName \o "\n      WHERE "
            \o Join([i \in 1..Len(options.columns) |->
                         options.columns[i].name \o " IS NOT NULL"], " AND ")
            \o "\n      PRIMARY KEY (("
            \o Join([i \in 1..Len(partitionKey[1]) |-> partitionKey[1][i].name], ", ")
            \o "), "
            \o Join([i \in 1..Len(partitionKey[2]) |-> partitionKey[2][i].name], ", ")
            \o ");"

MaterialViewLoad ==
    /\ Builder("MaterialView.load")
    /\ qout' = Built("execute", MaterialViewQuery(qin.name, qin.options), <<>>, <<<<>>, <<>>>>)

\* execute resolved: client.materialViews.set, logging.success, return
MaterialViewLoadResolve ==
    /\ Awaiting("MaterialView.load")
    /\ qres' = Resolved(Void, ResultSet(<<>>))

\* mutant: the catch block throws the error again
MaterialViewLoadRethrow(error) == Rejected(error)

\* catch (error) { this.client.logging.error(...) }: the call returns normally
MaterialViewLoadSettle(error) ==
    [kind |-> "resolve", value |-> Void, err |-> "", data |-> ResultSet(<<>>),
     executeFailed |-> TRUE]

MaterialViewLoadCatch ==
    /\ Awaiting("MaterialView.load")
    /\ qres' = MaterialViewLoadSettle("BackendExecutionFailure")

Column(name, primary) == [name |-> name, primary |-> primary]

MaterialViewInputs ==
    {[kind |-> "args", fn |-> "MaterialView.load", name |-> "users_by_b",
      options |-> [tableName |-> "users", columns |-> cs, include |-> i]] :
         cs \in {<<Column("a", TRUE)>>, <<Column("a", TRUE), Column("b", FALSE)>>,
                 <<Column("b", FALSE), Column("a", TRUE)>>},
         i \in Includes}

(***************************************************************************)
(* Client.batch (Client.ts 398-402).  A query is kept as the pieces around *)
(* its placeholder tokens, so that replace has something to find.          *)
(***************************************************************************)
BatchStatement(query, params) == [query |-> query, params |-> params]

\* mutant: the query is passed on as it is
ReplaceNothing(query, pattern, by) == query

\* String.prototype.replace with a string pattern: the first occurrence only
Replace(query, pattern, by) ==
    IF IndexOf(query, pattern) = -1 THEN query
    ELSE [query EXCEPT ![IndexOf(query, pattern) + 1] = by]

\* operations.map(operation => ({...operation, query: operation.query.replace(...)}))
ClientBatch ==
    /\ Builder("batch")
    /\ qout' = [kind |-> "batch",
                statements |->
                    [i \in 1..Len(qin.operations) |->
                         BatchStatement(Replace(qin.operations[i].query, Placeholder, Keyspace),
                                        qin.operations[i].params)]]

AwaitingBatch ==
    /\ qin.kind = "args"
    /\ qin.fn = "batch"
    /\ qout.kind = "batch"
    /\ qres.kind = "none"
    /\ UNCHANGED <<schema, udtSchema, client, types, models, primaryKey, stack, call,
                   loads, ncalls, log, results, dbTypes, dbTables, created, qin, qout, connect>>

ClientBatchResolve ==
    /\ AwaitingBatch
    /\ qres' = Resolved(Void, ResultSet(<<>>))

ClientBatchReject ==
    /\ AwaitingBatch
    /\ qres' = Rejected("BackendExecutionFailure")

\* what the batch builders return for some arguments
Operations ==
    {BatchStatement(BatchInsertParts("users", <<[name |-> "name", value |-> Scalar(1)], [name |-> "age", value |-> Scalar(30)]>>), SetValues(<<[name |-> "name", value |-> Scalar(1)], [name |-> "age", value |-> Scalar(30)]>>)),
     BatchStatement(BatchDeleteParts("events", "a=?", ""), <<Scalar(7)>>),
     BatchStatement(BatchUpdateParts("users", "name = ?", "b IN (?, ?)", "LIMIT 1"),
                    <<Scalar(1), Array(<<1, 2>>)>>)}

BatchInputs ==
    {[kind |-> "args", fn |-> "batch", operations |-> ops] : ops \in Lists(Operations, 2)}

(***************************************************************************)
(* One call, from its arguments to the settling of its promise.            *)
(***************************************************************************)
CallWheres == Lists(Conds, 1)

CallInputs ==
    {Args("select", w, l, i, <<>>) : w \in CallWheres, l \in {NoLimit, Limit(20)}, i \in Includes}
        \cup {Args("selectAll", w, NoLimit, i, <<>>) : w \in CallWheres, i \in Includes}
        \cup {Args(fn, w, l, NoInclude, <<>>) :
                  fn \in {"count", "delete"}, w \in CallWheres, l \in {NoLimit, Limit(20)}}
        \cup {Args("update", w, NoLimit, NoInclude, s) : w \in CallWheres, s \in Sets}
        \cup AlterInputs \cup InsertInputs \cup MaterialViewInputs \cup BatchInputs

InitCall ==
    /\ Loaded
    /\ qin \in CallInputs
    /\ qout = None
    /\ qres = None
    /\ connect = None

NextCall ==
    \/ Select
    \/ SelectAll
    \/ Count
    \/ Delete
    \/ Update
    \/ Alter
    \/ Insert
    \/ BatchInsert
    \/ MaterialViewLoad
    \/ ClientBatch
    \/ SelectResolve
    \/ SelectAllResolve
    \/ CountResolve
    \/ VoidResolve
    \/ ExecuteRejects
    \/ MaterialViewLoadResolve
    \/ MaterialViewLoadCatch
    \/ ClientBatchResolve
    \/ ClientBatchReject

SpecCall == InitCall /\ [][NextCall]_vars

(***************************************************************************)
(* What the schema declares, read off the schema alone.                    *)
(***************************************************************************)
Indices(sq) == 1..Len(sq)

NamesOf(cols) == [i \in 1..Len(cols) |-> cols[i].name]

PartitionColumns(m) == NamesOf(SelectSeq(schema[m], LAMBDA f : f.partitionKey))

ClusteringColumns(m) == NamesOf(SelectSeq(schema[m], LAMBDA f : f.cluseringKey))

\* the data model of a schema: a column carries at most one key flag, and a key
\* column is not a Frozen reference
WellKeyed(m) ==
    \A i \in Indices(schema[m]) :
        /\ ~(schema[m][i].partitionKey /\ schema[m][i].cluseringKey)
        /\ (schema[m][i].partitionKey \/ schema[m][i].cluseringKey)
               => ~schema[m][i].type.frozen

DeclaredFragment(f) ==
    f.name \o " " \o
        (IF f.type.frozen THEN "frozen<" \o Str(f.type.toks) \o ">" ELSE Str(f.type.toks))

DeclaredCreateTable(m) ==
    "CREATE TABLE IF NOT EXISTS ks." \o m \o " (\n          "
        \o Join([i \in Indices(schema[m]) |-> DeclaredFragment(schema[m][i])], ",\n")
        \o ",\n          PRIMARY KEY ((" \o Join(PartitionColumns(m), ", ") \o ")"
        \o (IF Len(ClusteringColumns(m)) = 0 THEN ""
            ELSE ", " \o Join(ClusteringColumns(m), ", "))
        \o ")\n        );"

\* the CREATE TABLE statements the n-th load of m submitted
TableStatements(m, n) ==
    {k \in Indices(log) : log[k].kind = "table" /\ log[k].name = m /\ log[k].loadNo = n}

Finished(op, m, n, how) ==
    \E k \in Indices(results) :
        /\ results[k].op = op
        /\ results[k].target = m
        /\ results[k].loadNo = n
        /\ results[k].result = how

(***************************************************************************)
(* C1: the first load of a model whose schema has partition-key columns P  *)
(* (non-empty) and clustering-key columns C submits one CREATE TABLE IF    *)
(* NOT EXISTS statement (never a second one, and one when the load         *)
(* completes); its text lists one "<name> <type>" fragment per declared    *)
(* column in declaration order, then PRIMARY KEY ((P joined by ", ")),     *)
(* followed by ", " and C joined by ", " only when C is non-empty.         *)
(***************************************************************************)
C1_FirstLoadCreateTable ==
    \A m \in DOMAIN schema :
        (WellKeyed(m) /\ Len(PartitionColumns(m)) > 0) =>
            /\ \A k \in TableStatements(m, 1) : log[k].text = DeclaredCreateTable(m)
            /\ Cardinality(TableStatements(m, 1)) <= 1
            /\ Finished("load", m, 1, "ok") => Cardinality(TableStatements(m, 1)) = 1

\* a first load completed for a schema with a partition key and a clustering key
C1_Witness ==
    /\ WellKeyed("users")
    /\ Len(PartitionColumns("users")) > 0
    /\ Len(ClusteringColumns("users")) > 0
    /\ Finished("load", "users", 1, "ok")

(***************************************************************************)
(* C2: every load of the same model submits the same CREATE TABLE text as  *)
(* its first load, and after a load primaryKey holds each key column once. *)
(***************************************************************************)
C2_SameTextEveryLoad ==
    \A m \in DOMAIN schema :
        /\ \A j, k \in Indices(log) :
               (log[j].kind = "table" /\ log[k].kind = "table"
                    /\ log[j].name = m /\ log[k].name = m)
                   => log[j].text = log[k].text
        /\ \A n \in 1..loads[m] :
               (Finished("load", m, n, "ok") /\ \A p \in Procs : call[p].kind = "none")
                   => \A a, b \in Indices(primaryKey[m][1] \o primaryKey[m][2]) :
                          (primaryKey[m][1] \o primaryKey[m][2])[a]
                              = (primaryKey[m][1] \o primaryKey[m][2])[b] => a = b

(***************************************************************************)
(* C3: a load of a model none of whose columns has partitionKey = true     *)
(* fails: it submits no CREATE TABLE and does not register the model.      *)
(***************************************************************************)
C3_NoPartitionKeyFails ==
    \A m \in DOMAIN schema :
        Len(PartitionColumns(m)) = 0 =>
            /\ \A k \in Indices(log) : ~(log[k].kind = "table" /\ log[k].name = m)
            /\ m \notin models
            /\ \A n \in 1..loads[m] : ~Finished("load", m, n, "ok")

(***************************************************************************)
(* Frozen references, read off the schema and the registry alone.          *)
(***************************************************************************)
\* the reference is a registered name, or wraps one: w<name>
Registered(toks) ==
    \/ Len(toks) = 1 /\ toks[1] \in types
    \/ Len(toks) = 4 /\ toks[2] = "<" /\ toks[4] = ">" /\ toks[3] \in types

\* the UDT a reference names
Referenced(toks) == IF Len(toks) = 4 THEN toks[3] ELSE toks[1]

OwnSchema(kind, name) == IF kind \in {"model", "table"} THEN schema[name] ELSE udtSchema[name]

\* p is about to compile a column that is a Frozen reference to no registered UDT
AtMissing(p) ==
    /\ Busy(p)
    /\ Top(p).kind \in {"model", "udt"}
    /\ Top(p).ph = "cols"
    /\ Top(p).i <= Len(OwnSchema(Top(p).kind, Top(p).name))
    /\ OwnSchema(Top(p).kind, Top(p).name)[Top(p).i].type.frozen
    /\ ~Registered(OwnSchema(Top(p).kind, Top(p).name)[Top(p).i].type.toks)

MissingDependency(kind, name, toks) ==
    (IF kind = "model" THEN "Model" ELSE "Type") \o " \"" \o name \o "\" requires the \""
        \o Str(toks) \o "\" user defined type which was not found!"

(***************************************************************************)
(* What spec section 4.4 states of a built statement, read off the call's  *)
(* arguments alone.                                                        *)
(***************************************************************************)
ModelBuilders == {"select", "selectAll", "count", "delete", "update"}

Limited == {"select", "count", "delete", "BatchDelete", "BatchUpdate"}

\* the operator-to-template table of section 4.4
Template(op, k) ==
    CASE op \in {"equals", "notEquals"} -> k \o "=?"
      [] op = "in" -> k \o " IN ?"
      [] op = "notIn" -> k \o " NOT IN ?"
      [] op = "greaterThanOrEqual" -> k \o ">=?"
      [] op = "lessThanOrEqual" -> k \o "<=?"
      [] op = "contains" -> k \o " CONTAINS ?"
      [] op = "notContains" -> k \o " DOES NOT CONTAIN ?"

Documented(where) == \A i \in 1..Len(where) : where[i].op \in Handlers

\* the statement of builder a.fn around a WHERE body and a limit clause
QueryOf(a, body, limitClause) ==
    CASE a.fn = "select" -> SelectQuery(a.name, a.include, body, limitClause)
      [] a.fn = "selectAll" -> SelectAllQuery(a.name, a.include, body)
      [] a.fn = "count" -> CountQuery(a.name, body, limitClause)
      [] a.fn = "delete" -> DeleteQuery(a.name, body, limitClause)
      [] a.fn = "update" ->
             UpdateQuery(a.name, Join([i \in 1..Len(a.set) |-> a.set[i].name \o "=?"], ", "), body)
      [] a.fn = "BatchDelete" -> BatchDeleteQuery(a.name, body, limitClause)
      [] a.fn = "BatchUpdate" ->
             BatchUpdateQuery(a.name,
                 Join([i \in 1..Len(a.set) |-> a.set[i].name \o " = ?"], " AND "), body, limitClause)

\* the call of the builder has ended
Called == qin.kind = "args" /\ qout.kind # "none"

C5_UpdateStatement ==
    (Called /\ qin.fn = "update" /\ Documented(qin.where))
        => /\ qout.kind = "execute"
           /\ qout.query =
                  "\n    UPDATE ks.users\n    SET "
                      \o Join([i \in 1..Len(qin.set) |-> qin.set[i].name \o "=?"], ", ")
                      \o "\n    WHERE "
                      \o Join([i \in 1..Len(qin.where) |->
                                   Template(qin.where[i].op, qin.where[i].k)], " AND ")
                      \o "\n    IF EXISTS;\n    "
           /\ Len(qout.params) = Len(qin.set) + Len(qin.where)
           /\ \A i \in 1..Len(qin.set) : qout.params[i] = qin.set[i].value
           /\ \A i \in 1..Len(qin.where) : qout.params[Len(qin.set) + i] = qin.where[i].v

\* an update of two columns under a condition on an array was submitted
C5_Witness ==
    /\ Called
    /\ qin.fn = "update"
    /\ Len(qin.set) = 2
    /\ Len(qin.where) = 1
    /\ qin.where[1].op = "in" /\ qin.where[1].v.arr
    /\ qout.kind = "execute"
    /\ qout.params = <<Scalar(1), Scalar(30), Array(<<1, 2>>)>>

(***************************************************************************)
(* C6: a statement built by select, count, delete, BatchDelete or          *)
(* BatchUpdate with a numeric limit carries LIMIT max(1, floor(limit)),    *)
(* LIMIT 1 for a limit of 0, and carries no LIMIT clause when no limit is  *)
(* given.                                                                  *)
(***************************************************************************)
C6_LimitClamped ==
    (Called /\ qin.fn \in Limited /\ qout.kind # "throw")
        => qout.query =
               QueryOf(qin, Join(qout.conditions[1], " AND "),
                       IF qin.limit.defined
                       THEN "LIMIT " \o ToString(Max(1, Floor(qin.limit.tenths)))
                       ELSE "")

(***************************************************************************)
(* C7: when the column being compiled, of a table or of a UDT loaded for   *)
(* it, is a Frozen reference to a name that is not in the type registry    *)
(* (neither as it stands nor as the name inside a wrapper), the load ends  *)
(* in a missing-dependency error that names the reference; the step        *)
(* submits nothing, no statement was submitted in this call for the table  *)
(* or for a UDT on the way to the column, and the model registry is as it  *)
(* was when the call began.                                                *)
(***************************************************************************)
C7_MissingDependency ==
    [][\A p \in Procs :
          (AtMissing(p) /\ stack'[p] # stack[p]) =>
              /\ stack'[p] = <<>>
              /\ Len(results') = Len(results) + 1
              /\ results'[Len(results')].cid = call[p].cid
              /\ results'[Len(results')].result = "error"
              /\ results'[Len(results')].err =
                     MissingDependency(Top(p).kind, Top(p).name,
                         OwnSchema(Top(p).kind, Top(p).name)[Top(p).i].type.toks)
              /\ log' = log
              /\ models' = models
              /\ \A k \in Indices(log) :
                     log[k].cid = call[p].cid =>
                         \A d \in Indices(stack[p]) : log[k].name # stack[p][d].name
              /\ (call[p].target \in models) = call[p].wasRegistered]_vars

\* a load of users ended on the missing type of a field of orphan, after the
\* CREATE TYPE of an earlier column's UDT was submitted
C7_Witness ==
    \E k \in Indices(results) :
        /\ results[k].err = MissingDependency("udt", "orphan", <<"ghost">>)
        /\ results[k].chain = <<"users", "orphan">>
        /\ \E j \in Indices(log) : log[j].cid = results[k].cid /\ log[j].kind = "type"

(***************************************************************************)
(* C8: when a CREATE TABLE or CREATE TYPE statement is submitted, for each *)
(* Frozen column of its schema, in declaration order, a CREATE TYPE IF NOT *)
(* EXISTS of the referenced UDT was submitted earlier in the same call and *)
(* has completed (transitively: the same holds of that CREATE TYPE).       *)
(***************************************************************************)
C8_DependenciesFirst ==
    \A k \in Indices(log) :
        log[k].kind \in {"table", "type"} =>
            LET deps == SelectSeq(OwnSchema(log[k].kind, log[k].name),
                                  LAMBDA f : f.type.frozen)
            IN  \E js \in [Indices(deps) -> 1..(k - 1)] :
                    /\ \A a, b \in Indices(deps) : a < b => js[a] < js[b]
                    /\ \A a \in Indices(deps) :
                           /\ log[js[a]].kind = "type"
                           /\ log[js[a]].name = Referenced(deps[a].type.toks)
                           /\ log[js[a]].cid = log[k].cid
                           /\ log[js[a]].st = "ok"
                           /\ log[js[a]].text =
                                  "CREATE TYPE IF NOT EXISTS ks." \o log[js[a]].name \o " ("
                                      \o Join([i \in Indices(udtSchema[log[js[a]].name]) |->
                                                  DeclaredFragment(udtSchema[log[js[a]].name][i])], ", ")
                                      \o ");"

\* the CREATE TABLE of a table with a column of type person, whose UDT has a
\* field of type address, completed
C8_Witness ==
    \E k \in Indices(log) :
        /\ log[k].kind = "table"
        /\ log[k].st = "ok"
        /\ \E i \in Indices(schema[log[k].name]) : schema[log[k].name][i].type = FrozenPerson

(***************************************************************************)
(* C9: all CREATE TYPE statements of one UDT, whichever load triggered     *)
(* them and however the loads interleave, have the same text; and a        *)
(* backend that honours IF NOT EXISTS creates the type once (once more     *)
(* after each completed DROP TYPE).                                        *)
(***************************************************************************)
C9_SameTypeStatement ==
    /\ \A j, k \in Indices(log) :
           (log[j].kind = "type" /\ log[k].kind = "type" /\ log[j].name = log[k].name)
               => log[j].text = log[k].text
    /\ \A u \in DOMAIN udtSchema :
           /\ created[u] <= 1 + Cardinality({k \in Indices(log) :
                                  log[k].kind = "dropType" /\ log[k].name = u})
           /\ (\E k \in Indices(log) :
                   log[k].kind = "type" /\ log[k].name = u /\ log[k].st = "ok")
                  => created[u] >= 1

\* the loads of two tables by two callers each submitted the CREATE TYPE of
\* address, the second while the first was still pending, and both completed
C9_Witness ==
    \E j, k \in Indices(log) :
        /\ j < k
        /\ log[j].kind = "type" /\ log[k].kind = "type"
        /\ log[j].name = "address" /\ log[k].name = "address"
        /\ log[j].proc # log[k].proc
        /\ log[j].st = "ok" /\ log[k].st = "ok"
        /\ created["address"] = 1
        /\ \E a, b \in Indices(results) :
               /\ results[a].cid = log[j].cid /\ results[b].cid = log[k].cid
               /\ results[a].op = "load" /\ results[b].op = "load"
               /\ results[a].target # results[b].target
               /\ results[a].result = "ok" /\ results[b].result = "ok"

(***************************************************************************)
(* C10: a column typed set<a>, list<a> or map<a,b> over catalog scalars    *)
(* never makes load fail, and compiles to "<name> <type>".                 *)
(***************************************************************************)
C10_CompositeColumns ==
    /\ \A k \in Indices(results), t \in {SetOfText, ListOfInt, MapOfTextInt} :
           results[k].err # "Unsupported field type: " \o Str(t.toks)
    /\ \A m \in DOMAIN schema :
           (/\ WellKeyed(m)
            /\ \A i \in Indices(schema[m]) :
                   schema[m][i].type \in {Uuid, Text, SetOfText, ListOfInt, MapOfTextInt})
               => /\ \A k \in TableStatements(m, 1) : log[k].text = DeclaredCreateTable(m)
                  /\ \A k \in Indices(results) :
                         (results[k].target = m /\ results[k].op = "load"
                              /\ results[k].result = "error")
                             => results[k].err = "BackendExecutionFailure"

\* the type expressions spec section 4.1 accepts for a table column
Accepted(toks) ==
    \/ Len(toks) = 1 /\ toks[1] \in FieldTypeMap
    \/ Len(toks) = 4 /\ toks[1] \in {"set", "list"} /\ toks[2] = "<"
           /\ toks[3] \in FieldTypeMap /\ toks[4] = ">"
    \/ Len(toks) = 6 /\ toks[1] = "map" /\ toks[2] = "<" /\ toks[3] \in FieldTypeMap
           /\ toks[4] = "," /\ toks[5] \in FieldTypeMap /\ toks[6] = ">"

Unaccepted(m) ==
    {i \in Indices(schema[m]) : ~schema[m][i].type.frozen /\ ~Accepted(schema[m][i].type.toks)}

(***************************************************************************)
(* C11: a load of a model one of whose columns has a string type that is   *)
(* neither a name of the scalar table nor set, list or map over such names *)
(* never completes and never submits a CREATE TABLE statement; when the    *)
(* columns before the first such column are accepted strings, the load     *)
(* fails with the unsupported-field-type error of that column.             *)
(***************************************************************************)
C11_OnlyCatalogTypes ==
    \A m \in DOMAIN schema :
        Unaccepted(m) # {}
            => /\ \A k \in Indices(log) : ~(log[k].kind = "table" /\ log[k].name = m)
               /\ \A k \in Indices(results) :
                      (results[k].target = m /\ results[k].op = "load")
                          => /\ results[k].result = "error"
                             /\ \A i \in Unaccepted(m) :
                                    (\A j \in 1..(i - 1) :
                                         /\ ~schema[m][j].type.frozen
                                         /\ Truthy(typeMapping(schema[m][j].type.toks)))
                                        => results[k].err = "Unsupported field type: "
                                                                \o Str(schema[m][i].type.toks)

\* the UDT name a Frozen reference carries: the reference itself, or the name
\* inside the frozen<...> wrapper already present on it
ReferencedName(toks) == IF Len(toks) = 1 THEN toks[1] ELSE toks[3]

(***************************************************************************)
(* C12: every column definition compiled for a Frozen reference, in a      *)
(* table or in a UDT, is "<column> frozen<X>" where X is the name of the   *)
(* registered UDT the reference resolved to, whether the reference is X or *)
(* frozen<X>.                                                              *)
(***************************************************************************)
C12_FrozenColumnType ==
    \A p \in Procs : \A k \in 1..Len(stack[p]) :
        LET fr == stack[p][k]
            fields == OwnSchema(fr.kind, fr.name)
        IN  \A j \in 1..Len(fr.columns) :
                fields[j].type.frozen
                    => fr.columns[j] = fields[j].name \o " frozen<"
                                           \o ReferencedName(fields[j].type.toks) \o ">"

(***************************************************************************)
(* C13: select, selectAll, count, delete and update called with an empty   *)
(* condition list end in an error and submit nothing; no statement with an *)
(* empty WHERE body is submitted.                                          *)
(***************************************************************************)
C13_EmptyWhereRejected ==
    (Called /\ qin.fn \in ModelBuilders)
        => /\ Len(qin.where) = 0 => qout.kind = "throw"
           /\ qout.kind = "execute" => Len(qout.conditions[1]) > 0

(***************************************************************************)
(* C14: the statement of selectAll ends with its WHERE body, so it has no  *)
(* LIMIT clause; selectAll returns null exactly when the backend reports   *)
(* no row, and otherwise the rows of the backend, never an empty list.     *)
(***************************************************************************)
C14_SelectAllNullOrRows ==
    (qin.kind = "args" /\ qin.fn = "selectAll" /\ qout.kind = "execute")
        => /\ qout.query =
                  "\n      SELECT "
                      \o (IF qin.include.defined THEN Join(qin.include.cols, ", ") ELSE "*")
                      \o " \n      FROM ks.users\n      WHERE "
                      \o Join(qout.conditions[1], " AND ")
           /\ qres.kind = "resolve"
                  => /\ qres.value.type = "null" <=> qres.data.rowLength = 0
                     /\ qres.value.type # "null"
                            => /\ qres.value = Rows(qres.data.rows)
                               /\ Len(qres.value.rows) > 0

\* selectAll resolved with null for an answer without rows
C14_Witness ==
    /\ qin.kind = "args" /\ qin.fn = "selectAll"
    /\ Len(qin.where) = 1
    /\ qres.kind = "resolve"
    /\ qres.data.rowLength = 0
    /\ qres.value = Null

(***************************************************************************)
(* C15: count resolves with the count of the single row the backend        *)
(* returns: for a count c below 2^31, held with high word 0 and low word   *)
(* c, the result is c.                                                     *)
(***************************************************************************)
C15_CountValue ==
    (qin.kind = "args" /\ qin.fn = "count" /\ qres.kind = "resolve")
        => LET c == qres.data.rows[1].count
           IN  (c.high = 0 /\ c.low >= 0) => qres.value = Number(c.low)

BatchBuilders == {"BatchDelete", "BatchUpdate"}

(***************************************************************************)
(* C16: in every builder, Model.select/selectAll/count/delete/update and   *)
(* BatchDelete/BatchUpdate, the fragment of a notIn condition is a NOT IN  *)
(* predicate on its column, and differs from the fragment the builder      *)
(* compiles for an in condition on the same column and value.              *)
(***************************************************************************)
C16_NotInEverywhere ==
    (Called /\ qin.fn \in ModelBuilders \cup BatchBuilders /\ qout.kind # "throw")
        => \A i \in 1..Len(qin.where) :
               qin.where[i].op = "notIn"
                   => /\ qout.conditions[1][i] \in
                             {qin.where[i].k \o " NOT IN ?",
                              qin.where[i].k \o " NOT IN ("
                                  \o Join([j \in 1..Len(qin.where[i].v.items) |-> "?"], ", ")
                                  \o ")"}
                      /\ qout.conditions[1][i] #
                             (IF qin.fn \in BatchBuilders
                              THEN BatchFragment("in", qin.where[i].k, qin.where[i].v)
                              ELSE ModelFragment("in", qin.where[i].k))

\* the query with every placeholder token replaced by the keyspace
InKeyspace(query) ==
    [j \in 1..Len(query) |-> IF query[j] = Placeholder THEN Keyspace ELSE query[j]]

(***************************************************************************)
(* C17: Client.batch hands the backend, in one call, one statement per     *)
(* operation it was given, in the same order and with the same params;     *)
(* each query is the builder's query with the keyspace placeholder         *)
(* replaced by the keyspace, so no submitted query holds the placeholder;  *)
(* the operations of the caller are left as they were.                     *)
(***************************************************************************)
C17_BatchSubmitsAsGiven ==
    /\ []((Called /\ qin.fn = "batch")
              => /\ qout.kind = "batch"
                 /\ Len(qout.statements) = Len(qin.operations)
                 /\ \A i \in 1..Len(qin.operations) :
                        /\ qout.statements[i].params = qin.operations[i].params
                        /\ Str(qout.statements[i].query)
                               = Str(InKeyspace(qin.operations[i].query))
                        /\ \A j \in 1..Len(qout.statements[i].query) :
                               qout.statements[i].query[j] # Placeholder)
    /\ [][qin.fn = "batch" => qin' = qin]_vars

\* a batch of a BatchDelete statement followed by a BatchInsert statement was
\* submitted and accepted
C17_Witness ==
    /\ Called /\ qin.fn = "batch"
    /\ Len(qin.operations) = 2
    /\ Str(qin.operations[1].query)
           = "\n        DELETE FROM {keyspace}.events\n        WHERE a=?\n        ;\n        "
    /\ Str(qout.statements[1].query)
           = "\n        DELETE FROM ks.events\n        WHERE a=?\n        ;\n        "
    /\ Str(qout.statements[2].query)
           = "\n        INSERT INTO ks.users (name, age)\n        VALUES (?, ?)\n        "
    /\ qres.kind = "resolve"

\* the fragment of one sub-operation of alter, as spec section 4.3 writes it
AlterTypeFragment(o) == "ALTER " \o o.v.column \o " TYPE " \o Str(o.v.type.toks)

AddFragment(o) ==
    "ADD " \o Join([i \in 1..Len(o.v) |->
                        o.v[i][1].name \o " " \o Str(o.v[i][1].type.toks)], ", ")

DropFragment(o) == "DROP " \o Join(o.v, ", ")

RenameFragment(o) == "RENAME " \o o.v[1] \o " TO " \o o.v[2]

Supplied(o) == o.defined /\ Len(o.v) > 0

(***************************************************************************)
(* C18: alter submits one statement ALTER TABLE <keyspace>.<table> whose   *)
(* body is one fragment per supplied non-empty sub-operation, in the order *)
(* alterType, add, drop, rename, separated by newlines, and nothing for an *)
(* omitted sub-operation; primaryKey and the registry of models stay as    *)
(* they were.                                                              *)
(***************************************************************************)
C18_AlterStatement ==
    (Called /\ qin.fn = "alter")
        => /\ qout.kind = "execute"
           /\ qout.query =
                  "ALTER TABLE ks.users\n"
                      \o Join((IF qin.alter.defined THEN <<AlterTypeFragment(qin.alter)>> ELSE <<>>)
                                  \o (IF Supplied(qin.add) THEN <<AddFragment(qin.add)>> ELSE <<>>)
                                  \o (IF Supplied(qin.drop) THEN <<DropFragment(qin.drop)>> ELSE <<>>)
                                  \o (IF Supplied(qin.rename)
                                      THEN <<RenameFragment(qin.rename)>> ELSE <<>>),
                              "\n")
                      \o ";"
           /\ primaryKey = [m \in {"users"} |-> <<<<"c1">>, <<>>>>]
           /\ models = {"users"}

\* an alter with all four sub-operations was submitted and accepted
C18_Witness ==
    /\ Called /\ qin.fn = "alter"
    /\ qout.query = "ALTER TABLE ks.users\nALTER c2 TYPE text\nADD c3 text, c4 list<int>\n"
                        \o "DROP c5, c6\nRENAME c7 TO c8;"
    /\ qres.kind = "resolve"

(***************************************************************************)
(* C19: when the backend rejects the execute of a call (select, selectAll, *)
(* count, delete, update, alter, insert, MaterialView.load), the call      *)
(* submitted that one statement only and its promise rejects with the      *)
(* error of the backend; it does not resolve.                              *)
(***************************************************************************)
C19_FailuresPropagate ==
    (qres.kind # "none" /\ qres.executeFailed)
        => /\ qout.kind \in {"execute", "batch"}
           /\ qres.kind = "reject"
           /\ qres.err = "BackendExecutionFailure"

\* result k is a load or a drop of model m that resolved
Succeeded(k, m) ==
    /\ results[k].target = m
    /\ results[k].op \in {"load", "drop"}
    /\ results[k].result = "ok"

(***************************************************************************)
(* C20: a model is in the registry of the client exactly when the most     *)
(* recent load or drop of it that completed is a load, whose CREATE TABLE  *)
(* was executed; a call that fails leaves the registry as it was, a load   *)
(* that resolves adds its model only, and a drop that resolves removes its *)
(* model only.                                                             *)
(***************************************************************************)
C20_RegistryFollowsLastSuccess ==
    /\ [](\A m \in DOMAIN schema :
              m \in models
                  <=> \E k \in Indices(results) :
                          /\ Succeeded(k, m)
                          /\ results[k].op = "load"
                          /\ \A j \in Indices(results) : j > k => ~Succeeded(j, m)
                          /\ \E a \in Indices(log) :
                                 /\ log[a].cid = results[k].cid
                                 /\ log[a].kind = "table" /\ log[a].name = m
                                 /\ log[a].st = "ok")
    /\ [][/\ Len(results') = Len(results) => models' = models
          /\ Len(results') = Len(results) + 1
                 => LET r == results'[Len(results')]
                    IN  models' = IF r.result = "ok" /\ r.op = "load"
                                      THEN models \cup {r.target}
                                  ELSE IF r.result = "ok" /\ r.op = "drop"
                                      THEN models \ {r.target}
                                  ELSE models]_vars

\* users was loaded and then dropped, and events is still registered
C20_Witness ==
    /\ models = {"events"}
    /\ \E j, k \in Indices(results) :
           /\ j < k
           /\ Succeeded(j, "users") /\ results[j].op = "load"
           /\ Succeeded(k, "users") /\ results[k].op = "drop"

(***************************************************************************)
(* C21: a load does not recurse indefinitely: the chain of loads it awaits *)
(* never enters the load of a UDT that is already pending in the chain,    *)
(* so it is no longer than the registry and the load settles.              *)
(***************************************************************************)
C21_NoReentrantLoad ==
    \A p \in Procs :
        \A j, k \in 1..Len(stack[p]) :
            (j < k /\ stack[p][j].kind = "udt" /\ stack[p][k].kind = "udt")
                => stack[p][j].name # stack[p][k].name

\* the names of the columns of a view that are primary, or are not, in list order
ViewColumns(options, primary) ==
    LET cs == SelectSeq(options.columns, LAMBDA c : c.primary = primary)
    IN  [i \in 1..Len(cs) |-> cs[i].name]

(***************************************************************************)
(* C22: the statement of MaterialView.load ends with PRIMARY KEY ((P)) when *)
(* the view has no non-primary column and with PRIMARY KEY ((P), C)        *)
(* otherwise, P the primary and C the non-primary columns, each joined by  *)
(* ", " in the order of the columns list.                                  *)
(***************************************************************************)
C22_ViewPrimaryKey ==
    (Called /\ qin.fn = "MaterialView.load")
        => qout.query =
               "\n      CREATE MATERIALIZED VIEW IF NOT EXISTS ks." \o qin.name
                   \o " AS\n      SELECT "
                   \o (IF qin.options.include.defined
                       THEN Join(qin.options.include.cols, ", ") ELSE "*")
                   \o " FROM ks." \o qin.options.tableName \o "\n      WHERE "
                   \o Join([i \in 1..Len(qin.options.columns) |->
                                qin.options.columns[i].name \o " IS NOT NULL"], " AND ")
                   \o "\n      PRIMARY KEY ((" \o Join(ViewColumns(qin.options, TRUE), ", ")
                   \o ")"
                   \o (IF Len(ViewColumns(qin.options, FALSE)) > 0
                       THEN ", " \o Join(ViewColumns(qin.options, FALSE), ", ")
                       ELSE "")
                   \o ");"

Composite(type) ==
    ~type.frozen /\ Len(type.toks) > 1 /\ type.toks[1] \in {"set", "list", "map"}

KeyNames(m) ==
    {primaryKey[m][1][i] : i \in 1..Len(primaryKey[m][1])}
        \cup {primaryKey[m][2][i] : i \in 1..Len(primaryKey[m][2])}

(***************************************************************************)
(* C23: primaryKey never holds a column whose type is set<...>, list<...>, *)
(* map<...> or a Frozen reference, whatever key flags the schema sets on   *)
(* it, and holds only columns declared with a key flag.                    *)
(***************************************************************************)
C23_NoCompositeKey ==
    \A m \in DOMAIN schema :
        /\ \A i \in Indices(schema[m]) :
               (Composite(schema[m][i].type) \/ schema[m][i].type.frozen)
                   => schema[m][i].name \notin KeyNames(m)
        /\ \A n \in KeyNames(m) :
               \E i \in Indices(schema[m]) :
                   /\ schema[m][i].name = n
                   /\ schema[m][i].partitionKey \/ schema[m][i].cluseringKey

(***************************************************************************)
(* Client.connect (Client.ts 286-321): init of the UDT of every file of    *)
(* typesPath, then the awaited load of the model of every file of          *)
(* modelsPath.  A file that is neither .ts nor .js makes connect return;   *)
(* a file that exports no UDT (no Model) is skipped; a load that rejects   *)
(* rejects connect.  materialViewsPath is not set.                         *)
(***************************************************************************)
File(ext, exports) == [ext |-> ext, exports |-> exports]

TypeFiles ==
    {<<File(".ts", "address"), File(".js", "person"), File(".ts", "orphan")>>,
     <<File(".ts", "person"), File(".ts", "helpers"), File(".js", "address")>>,
     <<File(".ts", "address"), File(".md", ""), File(".ts", "person")>>}

ModelFiles ==
    {<<>>,
     <<File(".ts", "users")>>,
     <<File(".js", "events"), File(".ts", "users")>>,
     <<File(".json", ""), File(".ts", "users")>>}

\* connect has settled: it returned, or the load it awaited rejected
Settled == connect.phase \in {"done", "returned", "rejected"}

\* the loop over the files of typesPath
ConnectTypes ==
    /\ connect.phase = "types"
    /\ LET files == connect.typeFiles
           i == connect.i
       IN  IF i > Len(files)
           THEN /\ connect' = [connect EXCEPT !.phase = "models", !.i = 1]
                /\ UNCHANGED <<client, types>>
           ELSE IF files[i].ext \notin {".ts", ".js"}
           THEN /\ connect' = [connect EXCEPT !.phase = "returned"]
                /\ UNCHANGED <<client, types>>
           ELSE IF files[i].exports \in DOMAIN udtSchema
           THEN /\ client' = client \cup {files[i].exports}
                /\ types' = types \cup {files[i].exports}
                /\ connect' = [connect EXCEPT !.i = i + 1]
           ELSE /\ connect' = [connect EXCEPT !.i = i + 1]
                /\ UNCHANGED <<client, types>>
    /\ UNCHANGED <<schema, udtSchema, models, primaryKey, stack, call, loads, ncalls,
                   log, results, dbTypes, dbTables, created, qin, qout, qres>>

\* the loop over the files of modelsPath: await model.load(this)
ConnectModels ==
    /\ connect.phase = "models"
    /\ LET files == connect.modelFiles
           i == connect.i
       IN  IF i > Len(files)
           THEN /\ connect' = [connect EXCEPT !.phase = "done"]
                /\ UNCHANGED <<client, stack, call, loads, ncalls>>
           ELSE IF files[i].ext \notin {".ts", ".js"}
           THEN /\ connect' = [connect EXCEPT !.phase = "returned"]
                /\ UNCHANGED <<client, stack, call, loads, ncalls>>
           ELSE IF files[i].exports \in DOMAIN schema
           THEN /\ Begin(1, "load", files[i].exports, loads[files[i].exports] + 1,
                         <<Frame("model", files[i].exports)>>)
                /\ client' = client \cup {files[i].exports}
                /\ loads' = [loads EXCEPT ![files[i].exports] = @ + 1]
                /\ connect' = [connect EXCEPT !.phase = "awaiting"]
           ELSE /\ connect' = [connect EXCEPT !.i = i + 1]
                /\ UNCHANGED <<client, stack, call, loads, ncalls>>
    /\ UNCHANGED <<schema, udtSchema, types, models, primaryKey, log, results,
                   dbTypes, dbTables, created, qin, qout, qres>>

\* the awaited load has settled
ConnectAwait ==
    /\ connect.phase = "awaiting"
    /\ call[1].kind = "none"
    /\ connect' = IF results[Len(results)].result = "ok"
                  THEN [connect EXCEPT !.phase = "models", !.i = connect.i + 1]
                  ELSE [connect EXCEPT !.phase = "rejected"]
    /\ UNCHANGED <<schema, udtSchema, client, types, models, primaryKey, stack, call,
                   loads, ncalls, log, results, dbTypes, dbTables, created, qin, qout,
                   qres>>

\* the Client and its Model and UDT objects are constructed; connect is called
InitConnect ==
    /\ schema \in {[users |-> u, events |-> Named(<<Partition(Uuid), Clustering(Text)>>)] :
                       u \in SharedSchemas}
    /\ InitLoad({"users", "events"}, {1}, {})
    /\ qin = None
    /\ qout = None
    /\ qres = None
    /\ connect \in {[kind |-> "connect", typeFiles |-> t, modelFiles |-> m,
                     phase |-> "types", i |-> 1] : t \in TypeFiles, m \in ModelFiles}

\* connect, and then the calls of the application
NextConnect ==
    \/ ConnectTypes
    \/ ConnectModels
    \/ ConnectAwait
    \/ Continue
    \/ Settled /\ ModelCalls
    \/ Settled /\ TypeCalls
    \/ \E p \in Procs : UDTDropResolve(p)

SpecConnect == InitConnect /\ [][NextConnect]_vars

\* a call settles in this step; its result
Settles == Len(results') = Len(results) + 1

Settling == results'[Len(results')]

\* the Frozen fields of a table's or a UDT's own schema that reference u
References(kind, name, u) ==
    {f \in {OwnSchema(kind, name)[i] : i \in Indices(OwnSchema(kind, name))} :
         f.type.frozen /\ Referenced(f.type.toks) = u}

\* the UDTs of the files connect has to init
ConnectTypeNames ==
    {connect.typeFiles[i].exports : i \in Indices(connect.typeFiles)} \cap DOMAIN udtSchema

(***************************************************************************)
(* C24: a UDT is in the type registry exactly from its init until its      *)
(* successful drop.  A name enters the registry only in the init step of   *)
(* connect, which submits no statement and settles no call; it leaves only *)
(* when a drop of that UDT resolves, and it does leave then.  A UDT load   *)
(* that resolves has submitted its CREATE TYPE, and no load, resolved or   *)
(* rejected, changes the registry.  After a resolved drop of u, every      *)
(* later load of a table, or of a UDT that was initialised, whose schema   *)
(* has a Frozen reference to u rejects with the missing-dependency error   *)
(* of that reference.  While                                               *)
(* connect loads the models, every UDT of typesPath is registered, and no  *)
(* call has begun while it still inits the types.                          *)
(***************************************************************************)
C24_TypeRegistry ==
    /\ [][/\ \A u \in types' \ types :
                 /\ connect.phase = "types"
                 /\ connect.typeFiles[connect.i].exports = u
                 /\ log' = log
                 /\ results' = results
          /\ \A u \in types \ types' :
                 /\ Settles
                 /\ Settling.op = "dropType"
                 /\ Settling.target = u
                 /\ Settling.result = "ok"
          /\ (Settles /\ Settling.op = "dropType" /\ Settling.result = "ok")
                 => Settling.target \notin types'
          /\ (Settles /\ Settling.op \in {"load", "loadType"})
                 => types' = types
          /\ Len(log') > Len(log) => types' = types]_vars
    /\ [](\A k \in Indices(results) :
              /\ (results[k].op = "loadType" /\ results[k].result = "ok")
                     => \E a \in Indices(log) :
                            /\ log[a].cid = results[k].cid
                            /\ log[a].kind = "type"
                            /\ log[a].name = results[k].target
                            /\ log[a].text = CreateType(results[k].target,
                                   [i \in Indices(udtSchema[results[k].target]) |->
                                        DeclaredFragment(udtSchema[results[k].target][i])])
              /\ \A j \in 1..(k - 1) :
                     (results[j].op = "dropType" /\ results[j].result = "ok"
                      /\ results[k].op \in {"load", "loadType"}
                      /\ results[k].target \in client)
                         => LET kind == IF results[k].op = "load" THEN "model" ELSE "udt"
                            IN  \A f \in References(kind, results[k].target, results[j].target) :
                                    /\ results[k].result = "error"
                                    /\ results[k].err =
                                           MissingDependency(kind, results[k].target, f.type.toks))
    /\ [](/\ connect.phase \in {"models", "awaiting"} => ConnectTypeNames \subseteq types
          /\ connect.phase = "types" => ncalls = 0 /\ log = <<>>)

\* connect registered three UDTs; address was dropped, and the next load of
\* users, whose column is a frozen address, then failed on it
C24_Witness ==
    /\ connect.phase = "done"
    /\ Cardinality(ConnectTypeNames) = 3
    /\ types = {"person", "orphan"}
    /\ \E j, k \in Indices(results) :
           /\ j < k
           /\ results[j].op = "dropType" /\ results[j].target = "address"
           /\ results[j].result = "ok"
           /\ results[k].op = "load" /\ results[k].target = "users"
           /\ results[k].err = MissingDependency("model", "users", <<"address">>)

(***************************************************************************)
(* One type expression declared twice: as the non-key column c2 of the     *)
(* table users and as the field c2 of the UDT probe, both behind a uuid    *)
(* c1, with every UDT registered.                                          *)
(***************************************************************************)
TypeExpressions ==
    {Uuid, Text, SetOfText, ListOfInt, MapOfTextInt, Foo, TextOfInt,
     FrozenAddress, FrozenWrapped, FrozenPerson, FrozenOrphan, FrozenGhost}

InitCatalog ==
    /\ \E t \in TypeExpressions :
           /\ schema = [users |-> Named(<<Partition(Uuid), Plain(t)>>)]
           /\ udtSchema = [address |-> UDTs.address, person |-> UDTs.person,
                           orphan |-> UDTs.orphan,
                           probe |-> Named(<<Plain(Uuid), Plain(t)>>)]
    /\ client = DOMAIN udtSchema
    /\ types = DOMAIN udtSchema
    /\ models = {}
    /\ primaryKey = [m \in {"users"} |-> <<<<>>, <<>>>>]
    /\ stack = [p \in {1} |-> <<>>]
    /\ call = [p \in {1} |-> None]
    /\ loads = [m \in {"users"} |-> 0]
    /\ ncalls = 0
    /\ log = <<>>
    /\ results = <<>>
    /\ dbTypes = {}
    /\ dbTables = {}
    /\ created = [u \in DOMAIN udtSchema |-> 0]
    /\ qin = None
    /\ qout = None
    /\ qres = None
    /\ connect = None

SpecCatalog == InitCatalog /\ [][NextShared]_vars

\* the statement of kind and name that call cid submitted, as a set of log indices
Submitted(cid, kind, name) ==
    {a \in Indices(log) : log[a].cid = cid /\ log[a].kind = kind /\ log[a].name = name}

\* the backend rejected no statement of call cid
Accepting(cid) == \A a \in Indices(log) : log[a].cid = cid => log[a].st # "failed"

\* the fragments either compiler can return for field f
Fragments(f) ==
    {FrozenColumnDefinition(f)}
        \cup {r.text : r \in {x \in {ModelColumnDefinition(<<<<>>, <<>>>>, f), UDTColumnDefinition(f)} :
                              x.kind = "return"}}

\* the forms of type expression of the catalog: scalar, set, list, map, Frozen
Catalogued(t) == t.frozen \/ t \in {Uuid, Text, SetOfText, ListOfInt, MapOfTextInt}

(***************************************************************************)
(* C25: with the same registry (no UDT dropped) and a backend that rejects *)
(* nothing, a load of users and a load of probe that have both settled     *)
(* either both failed before their own statement was submitted, or both    *)
(* submitted it with the same "c2 <type>" fragment for the type expression *)
(* they share (a scalar, a set, a list, a map or a Frozen reference).      *)
(***************************************************************************)
C25_SameCatalog ==
    \A j, k \in Indices(results) :
        (/\ types = DOMAIN udtSchema
         /\ Catalogued(schema.users[2].type)
         /\ results[j].op = "load" /\ results[j].target = "users"
         /\ results[k].op = "loadType" /\ results[k].target = "probe"
         /\ Accepting(results[j].cid) /\ Accepting(results[k].cid))
            => \/ /\ Submitted(results[j].cid, "table", "users") = {}
                  /\ Submitted(results[k].cid, "type", "probe") = {}
                  /\ results[j].result = "error"
                  /\ results[k].result = "error"
               \/ \E x \in Fragments(schema.users[2]) :
                      /\ \E a \in Submitted(results[j].cid, "table", "users") :
                             log[a].text = CreateTable("users", <<"c1 uuid", x>>,
                                                       <<<<"c1">>, <<>>>>)
                      /\ \E a \in Submitted(results[k].cid, "type", "probe") :
                             log[a].text = CreateType("probe", <<"c1 uuid", x>>)

\* both callers are inside a load of the same Model instance m
ConcurrentLoads(m) ==
    /\ Cardinality(Procs) = 2
    /\ \A p \in Procs : call[p].kind = "call" /\ call[p].op = "load" /\ call[p].target = m

(***************************************************************************)
(* C26: while two load calls on the same model are in progress, every      *)
(* CREATE TABLE statement that is submitted is the declared one: its       *)
(* PRIMARY KEY clause lists each partition-key and each clustering-key     *)
(* column of the schema once, in declaration order.                        *)
(***************************************************************************)
C26_ConcurrentLoadsKeyOnce ==
    [][\A m \in DOMAIN schema :
          (/\ ConcurrentLoads(m)
           /\ Len(log') = Len(log) + 1
           /\ log'[Len(log')].kind = "table"
           /\ log'[Len(log')].name = m)
              => log'[Len(log')].text = DeclaredCreateTable(m)]_vars

(***************************************************************************)
(* C27: a failed load leaves primaryKey as it was before the call: when    *)
(* the first load of a model has failed (on a column or on the backend's   *)
(* rejection) and no other load of it has begun, primaryKey is still the   *)
(* pair of empty lists the constructor assigned.                           *)
(***************************************************************************)
C27_FailedLoadKeepsPrimaryKey ==
    \A m \in DOMAIN schema :
        (loads[m] = 1 /\ Finished("load", m, 1, "error"))
            => primaryKey[m] = <<<<>>, <<>>>>

\* the number of ? in the fragment BatchFragment(c.op, c.k, c.v)
QuestionMarks(c) == IF c.op \in {"in", "notIn"} THEN Len(c.v.items) ELSE 1

RECURSIVE SumQuestionMarks(_)
SumQuestionMarks(where) ==
    IF Len(where) = 0 THEN 0 ELSE QuestionMarks(Head(where)) + SumQuestionMarks(Tail(where))

(***************************************************************************)
(* C28: in every statement BatchDelete or BatchUpdate returns, the number  *)
(* of ? placeholders of the query (one per assignment of the set-map, and  *)
(* per condition one, or for in / notIn one per element of the value       *)
(* array) equals the length of params.                                     *)
(***************************************************************************)
C28_PlaceholdersMatchParams ==
    (qout.kind = "return" /\ qin.fn \in {"BatchDelete", "BatchUpdate"})
        => /\ qout.conditions[1] =
                  [i \in Indices(qin.where) |->
                       BatchFragment(qin.where[i].op, qin.where[i].k, qin.where[i].v)]
           /\ Len(qin.set) + SumQuestionMarks(qin.where) = Len(qout.params)

\* the condition conforms to the WhereClause type: in and notIn carry an array
Conforms(c) == c.op \in WhereClause /\ (c.op \in {"in", "notIn"} => c.v.arr)

(***************************************************************************)
(* C29: a builder called with conditions that conform to the WhereClause   *)
(* type does not fail: it builds a statement, with one fragment and one    *)
(* parameter per condition.                                                *)
(***************************************************************************)
C29_EveryOperatorCompiled ==
    (qout.kind # "none" /\ qin.name \in client
     /\ \A i \in Indices(qin.where) : Conforms(qin.where[i]))
        => /\ qout.kind # "throw"
           /\ Len(qout.conditions[1]) = Len(qin.where)
           /\ Len(qout.conditions[2]) = Len(qin.where)

(***************************************************************************)
(* BatchUpdate as shipped in lib/Batch.js (44-72): the compiled file joins *)
(* the assignments of the SET clause with ", ".                            *)
(***************************************************************************)
LibBatchUpdate(a) ==
    LET c == Conditions(TRUE, a.where, <<<<>>, <<>>>>)
    IN  IF c.kind = "throw" THEN Thrown
        ELSE Built("return",
                   BatchUpdateQuery(a.name,
                       Join([i \in 1..Len(a.set) |-> SetNames(a.set)[i] \o " = ?"], ", "),
                       Join(c.conditions[1], " AND "), LimitClause(a.limit)),
                   SetValues(a.set) \o c.conditions[2], c.conditions)

(***************************************************************************)
(* C30: for a set-map of n >= 1 entries, BatchUpdate of the TypeScript     *)
(* source ends as the compiled lib/Batch.js does for the same input: the   *)
(* same throw, or the same params and the same query, whose SET clause     *)
(* holds the n assignments separated by ", ".                              *)
(***************************************************************************)
C30_BatchUpdateSetClause ==
    (qout.kind # "none" /\ qin.fn = "BatchUpdate" /\ Len(qin.set) >= 1)
        => qout = LibBatchUpdate(qin)

====
